---- MODULE Spec2Model ----
(***************************************************************************)
(* Messenger booking bot (meta-bot): the claim / collect / finalize        *)
(* protocol of processPayload against the lead store, the conversation     *)
(* state store, the dedupe table and the calendar.                         *)
(*                                                                         *)
(* Every inbound webhook event is one turn.  Turns run concurrently        *)
(* (ctx.waitUntil); every awaited call on a shared collaborator is one     *)
(* atomic step of the turn, local computation between two awaits is        *)
(* folded into the step that follows it.                                   *)
(***************************************************************************)
EXTENDS Integers, Sequences, FiniteSets, TLC

----------------------------------------------------------------------------
(* Bounds of the model *)

NumLeads == 2        \* distinct senders (psid)
NumSlots == 4        \* catalog windows inside the search range, in time order
MaxInFlight == 2     \* turns that may be in flight at the same time
MaxMsgs == 6         \* webhook deliveries in one behaviour, one sender
MaxMsgsTwo == 8      \* webhook deliveries in one behaviour, several senders
MaxTicks == 2        \* how often the clock advances
MaxOverlap == 1      \* events that may arrive while another one is being processed
MaxMsgsRace == 5     \* webhook deliveries in one behaviour, one sender, replies outstanding
MaxOverlapRace == 2  \* events that may arrive while another one is processed, same sender
MaxMsgsDialog == 7   \* webhook deliveries in one behaviour, one sender, one at a time
MaxMsgsFallback == 4  \* webhook deliveries in one behaviour when the catch may fail
MaxMsgsScarce == 4   \* messages of the dialogue on a nearly full calendar
MaxMsgsLabel == 4    \* messages of the dialogue in which slot labels are sent
MaxBusy == 2         \* busy blocks on the calendar when the generator runs
MaxBusyDate == 2     \* last date that carries a short busy block or is asked for
LongBlockEnd == 10   \* date on whose noon the long busy block ends

(* Program constants *)

PendingTTL == 15     \* minutes a pending claim stays valid
WindowsPerDay == 2   \* 12-3 PM and 3-6 PM
DegradeAt == 3       \* attemptCount that triggers the human handoff
HoursPerDay == 24
WindowStart == <<12, 15>>   \* hour of the start of each window
WindowLength == 3    \* hours of a window
DaysPrimary == 7     \* options.daysPrimary
DaysFallback == 14   \* options.daysFallback
BackfillDays == 14   \* days searched after a forced date
DefaultStartOffset == 3   \* days generateTwoSlots skips from today
NoLimit == 999       \* default of maxSlots

Leads == 1..NumLeads
Slots == 1..NumSlots
Procs == 1..MaxInFlight
Keys  == 1..(MaxMsgs + MaxMsgsTwo + MaxMsgsDialog)

NoSlot  == 0
NoEvent == 0
NoTime  == -1
NoDay   == -1

\* The clock advances in steps of one TTL: a claim is seen at age 0, at age
\* exactly 15 (still valid) and at age 30 (expired).
TickMinutes == PendingTTL
MaxClock == MaxTicks * TickMinutes

----------------------------------------------------------------------------
(* Inbound texts.  A text is the sequence of its lower-cased words; the     *)
(* source's substring tests (String.includes) become tests on words, and   *)
(* the words used below are chosen so that no keyword is a proper part of  *)
(* one of them.  The empty sequence is an event without text.              *)

Weekdays ==
  <<"sunday", "monday", "tuesday", "wednesday", "thursday", "friday", "saturday">>

NoText == <<>>

\* one representative per message class that the claim protocol
\* distinguishes: a greeting, the two index tokens, and a text that is
\* neither (an address or a phone number)
Texts == {<<"hi">>, <<"1">>, <<"2">>, <<"42", "elm", "st">>}

\* the texts of a sender who books without detour
BookingTexts == {<<"1">>, <<"42", "elm", "st">>}
RaceTexts == {<<"1">>, <<"2">>, <<"42", "elm", "st">>}

\* the messages of a dialogue: a greeting, the index tokens, a confirmation,
\* an address or phone number, an opt-out, a change request (in step closing
\* a question about rescheduling), requests for a day, and an attachment
\* without text
DialogTexts ==
  {<<"hi">>, <<"1">>, <<"2">>, <<"yes">>, <<"42", "elm", "st">>, <<"stop">>, <<"change">>,
   <<"today">>, <<"tomorrow">>, <<"next", "friday">>,
   <<"something", "else", "please">>, <<"fine">>, NoText}

\* the whole text is one of the greetings
greetings ==
  {<<"hi">>, <<"hello">>, <<"hey">>, <<"start">>, <<"restart">>, <<"reset">>}

\* the text contains one of the words
Includes(text, words) == \E i \in 1..Len(text) : text[i] \in words

\* the text contains the words of phrase next to each other
IncludesPhrase(text, phrase) ==
  \E i \in 0..(Len(text) - Len(phrase)) :
    \A j \in 1..Len(phrase) : text[i + j] = phrase[j]

detectStop(text) ==
  \/ Includes(text, {"stop", "unsubscribe", "quit", "cancel", "nevermind"})
  \/ \E ph \in {<<"dont", "message">>, <<"never", "mind">>, <<"not", "interested">>} :
       IncludesPhrase(text, ph)

detectHuman(text) ==
  \/ Includes(text, {"human", "agent"})
  \/ \E ph \in {<<"call", "me">>, <<"speak", "to", "someone">>,
                <<"talk", "to", "someone">>} : IncludesPhrase(text, ph)

detectGratitude(text) ==
  \/ Includes(text, {"thanks", "appreciate", "perfect", "awesome", "great"})
  \/ \E ph \in {<<"thank", "you">>, <<"sounds", "good">>} : IncludesPhrase(text, ph)

detectChangeRequest(text) ==
  \/ Includes(text, {"change", "reschedule", "switch", "adjust", "modify", "update"})
  \/ \E ph \in {<<"different", "day">>, <<"different", "time">>, <<"move", "it">>} :
       IncludesPhrase(text, ph)

\* a text that ends with "?" carries the word "?" at its end
EndsWithQuestionMark(text) == Len(text) > 0 /\ text[Len(text)] = "?"

detectRegenerateSlots(text) ==
  /\ ~EndsWithQuestionMark(text)
  /\ Len(text) > 2
  /\ \/ Includes(text, {"neither"})
     \/ \E ph \in {<<"different", "time">>, <<"another", "time">>,
                   <<"other", "options">>, <<"something", "else">>,
                   <<"not", "those">>, <<"different", "day">>,
                   <<"show", "me", "more">>, <<"what", "else">>,
                   <<"any", "other">>, <<"anything", "else">>,
                   <<"give", "me", "other">>, <<"show", "other">>} :
          IncludesPhrase(text, ph)

\* the keyword tests of detectQuestionType in the order of the source
detectQuestionType(text) ==
  IF \/ Includes(text, {"help", "info", "information"})
     \/ \E ph \in {<<"what", "services">>, <<"what", "service">>, <<"tell", "me", "about">>,
                   <<"what", "do", "you", "do">>, <<"what", "can", "you", "do">>,
                   <<"services", "do", "you">>} : IncludesPhrase(text, ph)
     \/ (Includes(text, {"service", "services"}) /\ Includes(text, {"?"}))
  THEN "services"
  ELSE IF Includes(text, {"dog", "pet", "hair", "fur"}) THEN "dog_hair"
  ELSE IF \/ Includes(text, {"include", "included"})
          \/ \E ph \in {<<"what", "do", "you">>, <<"what", "does">>,
                        <<"what", "comes", "with">>} : IncludesPhrase(text, ph)
  THEN "included"
  ELSE IF \/ Includes(text, {"price", "cost", "charge", "fee"})
          \/ IncludesPhrase(text, <<"how", "much">>)
  THEN "price"
  ELSE IF \/ Includes(text, {"zip", "location", "where", "area"})
          \/ IncludesPhrase(text, <<"come", "to">>)
  THEN "zip"
  ELSE IF \/ Includes(text, {"long", "duration"})
          \/ IncludesPhrase(text, <<"how", "many", "hours">>)
          \/ (Includes(text, {"take"}) /\ Includes(text, {"time"}))
  THEN "duration"
  ELSE IF Includes(text, {"reschedule", "cancel", "change"}) THEN "reschedule"
  ELSE IF /\ EndsWithQuestionMark(text)
          /\ \/ Includes(text, {"day", "today", "time", "other", "available", "when"})
             \/ \E i \in 1..Len(Weekdays) : Includes(text, {Weekdays[i]})
  THEN "availability"
  ELSE IF EndsWithQuestionMark(text) THEN "generic"
  ELSE "unknown"

----------------------------------------------------------------------------
(* Conversation context *)

\* address: an address is recorded; addressFor: the pending claim the lead
\* held when it was recorded
EmptyCtx ==
  [slots |-> <<>>, offeredDays |-> {}, attemptCount |-> 0,
   collectStep |-> "none", address |-> FALSE, phone |-> FALSE,
   addressFor |-> [slot |-> NoSlot, claimedAt |-> NoTime]]

resetAttemptCount(ctx) == [ctx EXCEPT !.attemptCount = 0]

getExcludedDays(ctx) == ctx.offeredDays

\* weekday of a catalog window (two windows per day)
SlotDay(s) == (s + WindowsPerDay - 1) \div WindowsPerDay

getDaysFromSlots(slots) == {SlotDay(slots[i]) : i \in 1..Len(slots)}

trackOfferedSlots(ctx, slots, isSuccessfulMatch) ==
  [ctx EXCEPT !.slots = slots,
              !.offeredDays = @ \cup getDaysFromSlots(slots),
              !.attemptCount = IF isSuccessfulMatch THEN 0 ELSE @ + 1]

\* the threshold test with > in the place of >=
shouldTriggerGracefulDegradation_Late(ctx) == ctx.attemptCount > DegradeAt

shouldTriggerGracefulDegradation(ctx) == ctx.attemptCount >= DegradeAt

----------------------------------------------------------------------------
(* Calendar *)

\* busy blocks the free/busy query reports: the reservations on the calendar
freeBusy(cal) == {cal[i].slot : i \in 1..Len(cal)}

\* catalog windows overlap only when they are the same window
isSlotStillFree(busyBlocks, slot) == slot \notin busyBlocks

RECURSIVE ScanWindows(_, _, _, _, _)
ScanWindows(s, busyBlocks, excludeDays, maxSlots, out) ==
  IF s > NumSlots \/ Len(out) >= maxSlots THEN out
  ELSE IF SlotDay(s) \in excludeDays \/ s \in busyBlocks
       THEN ScanWindows(s + 1, busyBlocks, excludeDays, maxSlots, out)
       ELSE ScanWindows(s + 1, busyBlocks, excludeDays, maxSlots, Append(out, s))

generateTwoSlotsFixedWindows(busyBlocks, excludeDays, maxSlots) ==
  ScanWindows(1, busyBlocks, excludeDays, maxSlots, <<>>)

\* the free windows of one day; the day of the dialogue itself has no window
\* left
generateSlotsForSpecificDate(busyBlocks, day) ==
  ScanWindows(1, busyBlocks, {SlotDay(s) : s \in Slots} \ {day}, WindowsPerDay, <<>>)

\* generateTwoSlots with a forced date: the windows of that date; a single
\* window is joined by the first window of the next day that has one
generateTwoSlotsForcedDate(busyBlocks, day) ==
  LET dateSlots == generateSlotsForSpecificDate(busyBlocks, day)
      later == {d \in {SlotDay(s) : s \in Slots} :
                  d > day /\ Len(generateSlotsForSpecificDate(busyBlocks, d)) > 0}
      next == CHOOSE d \in later : \A e \in later : d <= e
  IN  IF Len(dateSlots) >= 2 THEN SubSeq(dateSlots, 1, 2)
      ELSE IF Len(dateSlots) = 1 /\ later # {}
           THEN Append(dateSlots, Head(generateSlotsForSpecificDate(busyBlocks, next)))
      ELSE dateSlots

\* generateTwoSlots without slice(0, 2): every free window of the range
generateTwoSlots_All(busyBlocks) ==
  generateTwoSlotsFixedWindows(busyBlocks, {}, NoLimit)

generateTwoSlots(busyBlocks) ==
  LET all == generateTwoSlotsFixedWindows(busyBlocks, {}, 999)
  IN  IF Len(all) <= 2 THEN all ELSE SubSeq(all, 1, 2)

----------------------------------------------------------------------------
(* Slot generation on the clock.  Instants are hours of the wall clock of   *)
(* the business time zone, counted from midnight of date 0; a slot is the   *)
(* pair of its start and end instants; a busy block is such a pair too.     *)

DateOf(t) == t \div HoursPerDay

\* weekday name of a calendar date (Intl weekday: 'long', lower-cased)
weekdayOf(date) == Weekdays[(date % Len(Weekdays)) + 1]

\* the test with <= in the place of <: intervals that touch count as overlapping
overlapsDates_Closed(s1, e1, s2, e2) == s1 <= e2 /\ s2 <= e1

overlapsDates(s1, e1, s2, e2) == s1 < e2 /\ s2 < e1

RECURSIVE dedupeSlots(_)
dedupeSlots(slots) ==
  IF slots = <<>> THEN <<>>
  ELSE LET rest == dedupeSlots(SubSeq(slots, 1, Len(slots) - 1))
           s == slots[Len(slots)]
       IN  IF \E i \in 1..Len(rest) : rest[i] = s THEN rest ELSE Append(rest, s)

\* slice(0, 2)
FirstTwo(slots) == IF Len(slots) <= 2 THEN slots ELSE SubSeq(slots, 1, 2)

\* the blocks the free/busy query returns for [timeMin, timeMax)
freeBusyBetween(blocks, timeMin, timeMax) ==
  {b \in blocks : b.start < timeMax /\ timeMin < b.end}

\* makeDateInTZ(timeZone, y, m, d, hh, 0) for the hours of the windows
makeDateInTZ(date, hh) == date * HoursPerDay + hh

\* makeDateInTZ(timeZone, y, m, d, 0, 0): in a zone west of UTC the hour the
\* formatter prints for midnight UTC belongs to the evening before, so the
\* offset is negative and the result is midnight of the day before
midnightInTZ(date) == (date - 1) * HoursPerDay

\* the two windows of a date, 12-3 PM and 3-6 PM
Candidates(date) ==
  [w \in 1..Len(WindowStart) |->
     [start |-> makeDateInTZ(date, WindowStart[w]),
      end   |-> makeDateInTZ(date, WindowStart[w] + WindowLength)]]

\* the filter with >= in the place of >: a window that ends now is kept
notPast_Inclusive(c, at) == c.end >= at

\* .filter((c) => c.end > now)
notPast(c, at) == c.end > at

isBusy(c, busy) == \E b \in busy : overlapsDates(c.start, c.end, b.start, b.end)

RECURSIVE KeepFree(_, _, _, _)
KeepFree(cands, k, busy, at) ==
  IF k > Len(cands) THEN <<>>
  ELSE IF notPast(cands[k], at) /\ ~isBusy(cands[k], busy)
       THEN <<cands[k]>> \o KeepFree(cands, k + 1, busy, at)
       ELSE KeepFree(cands, k + 1, busy, at)

generateSlotsForSpecificDateAt(targetDate, at, blocks) ==
  LET busy == freeBusyBetween(blocks, midnightInTZ(targetDate),
                              makeDateInTZ(targetDate, HoursPerDay))
  IN  KeepFree(Candidates(targetDate), 1, busy, at)

\* the date of rangeStart + i * 24 h: when the clocks fall back on a date
\* of the range that date lasts 25 hours, and the instants after it fall on
\* 11 PM of the date before
LoopDate(rangeStart, i, fall) ==
  IF fall # NoDay /\ rangeStart <= fall /\ rangeStart + i > fall
  THEN rangeStart + i - 1
  ELSE rangeStart + i

\* the loop over the days (i) and the candidates of a day (k)
RECURSIVE ScanDays(_, _, _, _, _, _, _, _, _, _)
ScanDays(i, k, days, excludeDays, maxSlots, rangeStart, at, busy, fall, out) ==
  LET date == LoopDate(rangeStart, i, fall)
      c == Candidates(date)[k]
      isDuplicate == \E j \in 1..Len(out) : out[j] = c
      out2 == IF notPast(c, at) /\ ~isBusy(c, busy) /\ ~isDuplicate /\ Len(out) < maxSlots
              THEN Append(out, c) ELSE out
  IN  IF i >= days \/ Len(out) >= maxSlots THEN out
      ELSE IF weekdayOf(date) \in excludeDays
           THEN ScanDays(i + 1, 1, days, excludeDays, maxSlots, rangeStart, at, busy, fall, out)
      ELSE IF k >= Len(WindowStart)
           THEN ScanDays(i + 1, 1, days, excludeDays, maxSlots, rangeStart, at, busy, fall, out2)
      ELSE ScanDays(i, k + 1, days, excludeDays, maxSlots, rangeStart, at, busy, fall, out2)

generateTwoSlotsFixedWindowsAt(days, excludeDays, maxSlots, startOffset, at, blocks, fall) ==
  LET rangeStart == midnightInTZ(DateOf(at) + startOffset)
      rangeEnd == rangeStart + days * HoursPerDay
      busy == freeBusyBetween(blocks, rangeStart, rangeEnd)
  IN  dedupeSlots(ScanDays(0, 1, days, excludeDays, maxSlots, DateOf(rangeStart),
                           at, busy, fall, <<>>))

\* the search forward from the forced date: i = 1 .. 14, the first day that
\* has a window gives its first window
RECURSIVE Backfill(_, _, _, _)
Backfill(forcedDate, i, at, blocks) ==
  IF i > BackfillDays THEN <<>>
  ELSE LET nextSlots == generateSlotsForSpecificDateAt(forcedDate + i, at, blocks)
       IN  IF Len(nextSlots) > 0 THEN <<nextSlots[1]>>
           ELSE Backfill(forcedDate, i + 1, at, blocks)

\* generateTwoSlots without the search forward from the forced date
generateTwoSlotsAt_NoBackfill(forcedDate, startOffset, at, blocks, fall) ==
  IF forcedDate # NoDay
  THEN LET dateSlots == generateSlotsForSpecificDateAt(forcedDate, at, blocks)
       IN  IF Len(dateSlots) >= 2 THEN FirstTwo(dedupeSlots(dateSlots))
           ELSE IF Len(dateSlots) = 1
                THEN FirstTwo(dedupeSlots(dateSlots))
           ELSE FirstTwo(dedupeSlots(dateSlots))
  ELSE LET slots == generateTwoSlotsFixedWindowsAt(DaysPrimary, {}, NoLimit, startOffset,
                                                   at, blocks, fall)
       IN  IF Len(slots) >= 2 THEN FirstTwo(dedupeSlots(slots))
           ELSE FirstTwo(dedupeSlots(
                  generateTwoSlotsFixedWindowsAt(DaysFallback, {}, NoLimit, startOffset,
                                                 at, blocks, fall)))

generateTwoSlotsAt(forcedDate, startOffset, at, blocks, fall) ==
  IF forcedDate # NoDay
  THEN LET dateSlots == generateSlotsForSpecificDateAt(forcedDate, at, blocks)
       IN  IF Len(dateSlots) >= 2 THEN FirstTwo(dedupeSlots(dateSlots))
           ELSE IF Len(dateSlots) = 1
                THEN FirstTwo(dedupeSlots(dateSlots \o Backfill(forcedDate, 1, at, blocks)))
           ELSE FirstTwo(dedupeSlots(dateSlots))
  ELSE LET slots == generateTwoSlotsFixedWindowsAt(DaysPrimary, {}, NoLimit, startOffset,
                                                   at, blocks, fall)
       IN  IF Len(slots) >= 2 THEN FirstTwo(dedupeSlots(slots))
           ELSE FirstTwo(dedupeSlots(
                  generateTwoSlotsFixedWindowsAt(DaysFallback, {}, NoLimit, startOffset,
                                                 at, blocks, fall)))

----------------------------------------------------------------------------
(* Slot labels and the slot matcher *)

\* the weekday of the first day of the catalog
FirstWeekday == "friday"

WeekdayIndex(name) == CHOOSE i \in 1..Len(Weekdays) : Weekdays[i] = name

\* weekday name of a catalog day
DayName(day) ==
  Weekdays[((WeekdayIndex(FirstWeekday) - 1 + day - 1) % Len(Weekdays)) + 1]

\* start times of the windows of a day, as the label prints them
WindowTimes == <<"12:00", "3:00">>

\* the hour of each window, as a bare number
WindowHours == <<"12", "3">>

WindowOf(slot) == ((slot - 1) % WindowsPerDay) + 1

\* "Friday at 12:00 PM", lower-cased, word by word
formatSlotLabel(slot) ==
  <<DayName(SlotDay(slot)), "at", WindowTimes[WindowOf(slot)], "pm">>

\* the time part of a label: /(\d{1,2}:\d{2}\s*(?:AM|PM))/
LabelTime(slot) == SubSeq(formatSlotLabel(slot), 3, 4)

NoMatch == [matched |-> FALSE, slot |-> NoSlot, requiresChoice |-> FALSE]

Matched(slot) == [matched |-> TRUE, slot |-> slot, requiresChoice |-> FALSE]

\* the first slot of the list that is in the set, NoSlot when there is none
FirstIn(slots, good) ==
  LET I == {i \in 1..Len(slots) : slots[i] \in good}
  IN  IF I = {} THEN NoSlot
      ELSE slots[CHOOSE i \in I : \A j \in I : i <= j]

SlotsOf(slots) == {slots[i] : i \in 1..Len(slots)}

isConfirmWord(text) ==
  \/ Includes(text, {"yes", "yeah", "yep", "sure", "ok", "okay", "perfect", "great"})
  \/ \E ph \in {<<"sounds", "good">>, <<"that", "works">>} : IncludesPhrase(text, ph)

\* spellings of a time that the matcher rewrites to HH:MM am/pm
ShortTimes ==
  [t \in {"3pm", "12pm", "noon", "midnight"} |->
     CASE t = "3pm" -> <<"3:00", "pm">>
       [] t = "12pm" -> <<"12:00", "pm">>
       [] t = "noon" -> <<"12:00", "pm">>
       [] t = "midnight" -> <<"12:00", "am">>]

\* the tests that follow the confirmation words, in the order of the source:
\* "1"/"2", weekday name, whole label, HH:MM, bare hour, time with am/pm.
\* The closing day+time test needs a weekday name of a label in the text,
\* which the weekday test has then already answered.
MatchAfterConfirm(text, slots) ==
  LET days == {i \in 1..Len(Weekdays) :
                 /\ Includes(text, {Weekdays[i]})
                 /\ \E s \in SlotsOf(slots) : Includes(formatSlotLabel(s), {Weekdays[i]})}
      day == CHOOSE i \in days : \A j \in days : i <= j
      byLabel == FirstIn(slots, {s \in SlotsOf(slots) : text = formatSlotLabel(s)})
      byClock == FirstIn(slots, {s \in SlotsOf(slots) :
                                   Len(text) = 1 /\ text[1] = WindowTimes[WindowOf(s)]})
      byHour == FirstIn(slots, {s \in SlotsOf(slots) :
                                  Len(text) = 1 /\ text[1] = WindowHours[WindowOf(s)]})
      userTime == IF Len(text) = 1 /\ text[1] \in DOMAIN ShortTimes
                  THEN ShortTimes[text[1]] ELSE text
      byTime == FirstIn(slots, {s \in SlotsOf(slots) : userTime = LabelTime(s)})
  IN  IF text = <<"1">> /\ Len(slots) >= 1 THEN Matched(slots[1])
      ELSE IF text = <<"2">> /\ Len(slots) >= 2 THEN Matched(slots[2])
      ELSE IF days # {}
           THEN Matched(FirstIn(slots, {s \in SlotsOf(slots) :
                                          Includes(formatSlotLabel(s), {Weekdays[day]})}))
      ELSE IF byLabel # NoSlot THEN Matched(byLabel)
      ELSE IF byClock # NoSlot THEN Matched(byClock)
      ELSE IF byHour # NoSlot THEN Matched(byHour)
      ELSE IF byTime # NoSlot THEN Matched(byTime)
      ELSE NoMatch

\* the matcher without the comparison of the two displayed times
tryMatchSlot_AlwaysAsk(text, slots) ==
  IF Len(slots) = 0 THEN NoMatch
  ELSE IF isConfirmWord(text) /\ Len(slots) = 1 THEN Matched(slots[1])
  ELSE IF isConfirmWord(text)
       THEN [matched |-> FALSE, slot |-> NoSlot, requiresChoice |-> TRUE]
  ELSE MatchAfterConfirm(text, slots)

tryMatchSlot(text, slots) ==
  IF Len(slots) = 0 THEN NoMatch
  ELSE IF isConfirmWord(text) /\ Len(slots) = 1 THEN Matched(slots[1])
  ELSE IF isConfirmWord(text) /\ LabelTime(slots[1]) = LabelTime(slots[2])
       THEN Matched(slots[1])
  ELSE IF isConfirmWord(text)
       THEN [matched |-> FALSE, slot |-> NoSlot, requiresChoice |-> TRUE]
  ELSE MatchAfterConfirm(text, slots)

----------------------------------------------------------------------------
(* Date parser *)

\* The current instant as the parser sees it: the weekday of the UTC date
\* (Date.getUTCDay, 0 = Sunday), and whether the UTC date is already one day
\* ahead of the date in the business time zone (evening hours of a zone west
\* of Greenwich such as America/Denver).
Instants == [utcDay : 0..(Len(Weekdays) - 1), utcAhead : BOOLEAN]

NoDate == [kind |-> "none", days |-> 0, dayOfMonth |-> ""]

\* a date that lies the given number of days after the UTC date of now, noon UTC
RelativeDate(days) == [kind |-> "relative", days |-> days, dayOfMonth |-> ""]

\* a date given by its day of the month
MonthDate(word) == [kind |-> "dayOfMonth", days |-> 0, dayOfMonth |-> word]

\* the days from the business date of now to the business date of a parsed
\* date (ymdInTZ of noon UTC is the UTC date)
daysAfterToday(date, instant) ==
  date.days + (IF instant.utcAhead THEN 1 ELSE 0)

\* words that carry a day of the month with its ordinal suffix
Ordinals == {"17th"}

\* words that are a number of one or two digits
Numbers == {"1", "2", "3", "12", "42"}

\* words of the form HH:MM
ClockWords == {"12:00", "3:00"}

Months ==
  {"january", "february", "march", "april", "may", "june", "july", "august",
   "september", "october", "november", "december"}

parseRelativeDate(text, instant) ==
  LET named == {i \in 1..Len(Weekdays) : Includes(text, {Weekdays[i]})}
      targetDay == (CHOOSE i \in named : \A j \in named : i <= j) - 1
      diff == (targetDay - instant.utcDay + Len(Weekdays)) % Len(Weekdays)
  IN  IF Includes(text, {"tomorrow"}) THEN RelativeDate(1)
      ELSE IF Includes(text, {"today"}) THEN RelativeDate(0)
      ELSE IF named = {} THEN NoDate
      ELSE IF Includes(text, {"next"})
           THEN RelativeDate(IF diff = 0 THEN Len(Weekdays) ELSE diff + Len(Weekdays))
      ELSE RelativeDate(diff)

\* /\b(am|pm)\b/, /\b\d{1,2}:\d{2}/, /\bat\s+\d{1,2}\b/
hasTimeIndicator(text) ==
  \/ Includes(text, {"am", "pm"})
  \/ Includes(text, ClockWords)
  \/ \E i \in 1..(Len(text) - 1) :
       text[i] = "at" /\ text[i + 1] \in (Numbers \cup ClockWords)

\* the last test of the source, a weekday name with a number, is behind
\* parseRelativeDate, which answers every text that names a weekday
extractRequestedDate(text, instant) ==
  LET relativeDateResult == parseRelativeDate(text, instant)
      ordinals == {i \in 1..Len(text) : text[i] \in Ordinals}
      numbers == {i \in 1..Len(text) : text[i] \in Numbers}
  IN  IF relativeDateResult # NoDate THEN relativeDateResult
      ELSE IF hasTimeIndicator(text) THEN NoDate
      ELSE IF ordinals # {}
           THEN MonthDate(text[CHOOSE i \in ordinals : \A j \in ordinals : i <= j])
      ELSE IF Includes(text, Months) /\ numbers # {}
           THEN MonthDate(text[CHOOSE i \in numbers : \A j \in numbers : i <= j])
      ELSE NoDate

----------------------------------------------------------------------------
(* Lead store *)

NewLead ==
  [exists |-> TRUE, status |-> "active", bot_enabled |-> TRUE,
   pending_slot |-> NoSlot, pending_claimed_at |-> NoTime,
   booked_event_id |-> NoEvent, booked_slot |-> NoSlot]

NoLead == [NewLead EXCEPT !.exists = FALSE]

\* POST on_conflict=psid with merge-duplicates: the posted columns (status)
\* overwrite those of an existing row
upsertLeadByPsid(row) ==
  IF row.exists THEN [row EXCEPT !.status = "active"] ELSE NewLead

setLeadStatus(row, status) == [row EXCEPT !.status = status]

\* disableBot whose PATCH changes nothing
disableBot_Noop(row) == row

disableBot(row) == [row EXCEPT !.bot_enabled = FALSE]

\* the claim PATCH without its filter on booked_event_id
tryClaimPendingSlot_NoFilter(row, slot, t) ==
  [row |-> TRUE,
   lead |-> [row EXCEPT !.pending_slot = slot,
                        !.pending_claimed_at = t,
                        !.status = "active"]]

\* conditional PATCH ...&booked_event_id=is.null; row = FALSE stands for the
\* empty result
tryClaimPendingSlot(row, slot, t) ==
  IF row.booked_event_id = NoEvent
  THEN [row |-> TRUE,
        lead |-> [row EXCEPT !.pending_slot = slot,
                             !.pending_claimed_at = t,
                             !.status = "active"]]
  ELSE [row |-> FALSE, lead |-> row]

NoPending == [slot |-> NoSlot, claimedAt |-> NoTime]

\* the row holds a claim that is older than the TTL at time t
ClaimExpired(row, t) ==
  /\ row.pending_slot # NoSlot
  /\ row.pending_claimed_at # NoTime
  /\ t - row.pending_claimed_at > PendingTTL

\* getPendingSlot without the age test
getPendingSlot_NoTTL(row, t) ==
  IF row.pending_slot = NoSlot THEN NoPending
  ELSE [slot |-> row.pending_slot,
        claimedAt |-> IF row.pending_claimed_at # NoTime
                      THEN row.pending_claimed_at ELSE t]

getPendingSlot(row, t) ==
  IF row.pending_slot = NoSlot THEN NoPending
  ELSE IF row.pending_claimed_at # NoTime /\ t - row.pending_claimed_at > PendingTTL
       THEN NoPending
       ELSE [slot |-> row.pending_slot,
             claimedAt |-> IF row.pending_claimed_at # NoTime
                           THEN row.pending_claimed_at ELSE t]

\* the finalize PATCH without the pending columns
finalizeBookingWithDetails_KeepPending(row, read, eventId) ==
  [row EXCEPT !.status = "booked",
              !.booked_event_id = eventId,
              !.booked_slot = read.pending_slot]

\* the PATCH of finalizeBookingWithDetails; read is the row that the method
\* fetched before it
finalizeBookingWithDetails(row, read, eventId) ==
  [row EXCEPT !.status = "booked",
              !.booked_event_id = eventId,
              !.booked_slot = read.pending_slot,
              !.pending_slot = NoSlot,
              !.pending_claimed_at = NoTime]

releasePendingClaim(row) ==
  [row EXCEPT !.status = "active",
              !.pending_slot = NoSlot,
              !.pending_claimed_at = NoTime]

releaseBookingClaim(row) ==
  [row EXCEPT !.status = "active",
              !.booked_slot = NoSlot,
              !.booked_event_id = NoEvent]

\* the dedupe insert with merge-duplicates: a row always comes back
tryInsertDedupe_Merge(table, messageId) ==
  [duplicate |-> FALSE, table |-> table \cup {messageId}]

\* POST with resolution=ignore-duplicates on the primary key message_id
tryInsertDedupe(table, messageId) ==
  [duplicate |-> messageId \in table, table |-> table \cup {messageId}]

----------------------------------------------------------------------------
(* State *)

VARIABLES
  leads,     \* bot_leads: one row per psid
  convo,     \* bot_convo_state: step and context per lead
  dedupe,    \* bot_message_dedupe: message ids
  calendar,  \* reservations created by createEvent; the event id is the index
  now,       \* wall clock, minutes
  nmsgs,     \* deliveries so far
  overlaps,  \* deliveries so far that arrived while another turn was running
  passed,    \* per message id, the deliveries that got past the dedupe check
  replies,   \* per message id, the replies handed to sendTextMessage
  last,      \* the latest message the platform delivered
  turn,      \* the turns in flight
  probe      \* a call of a pure function: its arguments and its result

vars == <<leads, convo, dedupe, calendar, now, nmsgs, overlaps, passed, last, replies, turn, probe>>

NoConvo == [exists |-> FALSE, step |-> "start", ctx |-> EmptyCtx]

IdleTurn ==
  [pc |-> "idle", lead |-> 0, key |-> 0, text |-> NoText,
   step |-> "start", ctx |-> EmptyCtx,    \* the turn's copy of the state
   slot |-> NoSlot,         \* match.slot
   pending |-> NoPending,   \* result of getPendingSlot
   read |-> NoLead,         \* row fetched inside finalizeBookingWithDetails
   eventId |-> NoEvent,     \* result of createEvent
   forcedDate |-> NoDay,    \* the date handed to generateTwoSlots, in days from today
   stillFree |-> "none",    \* result of isSlotStillFree(match.slot): "free" / "busy"
   claim |-> "none",        \* result of tryClaimPendingSlot: "row" / "null"
   expired |-> FALSE,       \* the claim the finalize found was past its TTL
   fail |-> "none",         \* what failed in finalize from step 2 onward
   finalized |-> FALSE,     \* the store PATCH of finalize was applied
   completed |-> FALSE,     \* finalize ran to its end (bot disabled)
   enabled |-> TRUE,        \* bot_enabled of the row the upsert returned
   afterStop |-> FALSE,     \* history: the row was dead when the message arrived
   branch |-> "none",       \* the branch of the state machine that answered
   reply |-> ""]            \* reply computed by the state machine

NoProbe ==
  [fn |-> "none", text |-> NoText, slots |-> <<>>,
   instant |-> [utcDay |-> 0, utcAhead |-> FALSE],
   at |-> 0, blocks |-> {}, excludeDays |-> {}, forcedDate |-> NoDay,
   days |-> 0, maxSlots |-> 0, startOffset |-> 0, fall |-> NoDay, out |-> <<>>,
   done |-> FALSE, match |-> NoMatch, date |-> NoDate]

\* the stores and the workers before the first event
InitStore ==
  /\ leads = [l \in Leads |-> NoLead]
  /\ convo = [l \in Leads |-> NoConvo]
  /\ dedupe = {}
  /\ calendar = <<>>
  /\ now = 0
  /\ nmsgs = 0
  /\ overlaps = 0
  /\ passed = [k \in Keys |-> 0]
  /\ replies = [k \in Keys |-> 0]
  /\ last = [lead |-> 0, key |-> 0, text |-> NoText]
  /\ turn = [p \in Procs |-> IdleTurn]

Init ==
  /\ InitStore
  /\ probe = NoProbe

At(p, label) == turn[p].pc = label

Goto(p, label) == [turn EXCEPT ![p].pc = label]

----------------------------------------------------------------------------
(* Environment and entry of processPayload *)

Free(p) == At(p, "idle")

\* The head of the event loop for one delivery: upsertLeadByPsid, then
\* tryInsertDedupe, the inbound log and the bot_enabled check.  The upsert
\* and the dedupe insert touch different tables and are taken together with
\* the arrival of the event.
Arrive(p, l, key, text, limit, budget) ==
  LET row == upsertLeadByPsid(leads[l])
      r == tryInsertDedupe(dedupe, key)
      concurrent == \E q \in Procs : q # p /\ ~Free(q)
  IN  /\ nmsgs < limit
      /\ nmsgs' = nmsgs + 1
      /\ concurrent => overlaps < budget
      /\ overlaps' = IF concurrent THEN overlaps + 1 ELSE overlaps
      /\ last' = [lead |-> l, key |-> key, text |-> text]
      /\ leads' = [leads EXCEPT ![l] = row]
      /\ dedupe' = r.table
      /\ IF r.duplicate
         THEN UNCHANGED <<turn, passed>>
         ELSE /\ passed' = [passed EXCEPT ![key] = @ + 1]
              /\ turn' = IF row.bot_enabled
                         THEN [turn EXCEPT ![p] = [IdleTurn EXCEPT !.pc = "load", !.lead = l,
                                                                   !.key = key, !.text = text,
                                                                   !.afterStop = (leads[l].status = "dead")]]
                         ELSE turn
      /\ UNCHANGED <<convo, calendar, now, replies, probe>>

Receive(p, l, key, text, limit) ==
  Arrive(p, l, key, text, limit, MaxOverlap)

\* an event is handed to the lowest free worker
LowestFree(p) ==
  /\ Free(p)
  /\ \A q \in Procs : q < p => ~Free(q)

\* a new message of the first sender, any text
Deliver(p, text) ==
  /\ LowestFree(p)
  /\ Receive(p, 1, nmsgs + 1, text, MaxMsgs)

\* a new message of one of several senders, who appear in the order of
\* their psid
DeliverTwo(p, l, text) ==
  /\ LowestFree(p)
  /\ \A k \in Leads : k < l => leads[k].exists
  /\ Receive(p, l, nmsgs + 1, text, MaxMsgsTwo)

\* the platform delivers the latest message again, while its first delivery
\* is being processed or after it was handled
Redeliver(p) ==
  /\ LowestFree(p)
  /\ last.key # 0
  /\ Receive(p, last.lead, last.key, last.text, MaxMsgs)

Tick ==
  /\ now + TickMinutes <= MaxClock
  /\ now' = now + TickMinutes
  /\ UNCHANGED <<leads, convo, dedupe, calendar, nmsgs, overlaps, passed, last, replies, turn, probe>>

----------------------------------------------------------------------------
(* processPayload: loading the conversation *)

\* getConvoState (created with step start when missing), then the greeting test
Load(p) ==
  /\ At(p, "load")
  /\ turn[p].text # NoText
  /\ LET l == turn[p].lead
         state == IF convo[l].exists THEN convo[l]
                  ELSE [exists |-> TRUE, step |-> "start", ctx |-> EmptyCtx]
     IN  /\ convo' = [convo EXCEPT ![l] = state]
         /\ turn' = [turn EXCEPT ![p].step = state.step, ![p].ctx = state.ctx,
                                 ![p].pc = IF turn[p].text \in greetings
                                           THEN "resetRelease" ELSE "machine"]
  /\ UNCHANGED <<leads, dedupe, calendar, now, nmsgs, overlaps, passed, last, replies, probe>>

ResetRelease(p) ==
  /\ At(p, "resetRelease")
  /\ leads' = [leads EXCEPT ![turn[p].lead] = releaseBookingClaim(@)]
  /\ turn' = Goto(p, "resetStatus")
  /\ UNCHANGED <<convo, dedupe, calendar, now, nmsgs, overlaps, passed, last, replies, probe>>

ResetStatus(p) ==
  /\ At(p, "resetStatus")
  /\ leads' = [leads EXCEPT ![turn[p].lead] = setLeadStatus(@, "active")]
  /\ turn' = [turn EXCEPT ![p].pc = "machine", ![p].step = "start", ![p].ctx = EmptyCtx]
  /\ UNCHANGED <<convo, dedupe, calendar, now, nmsgs, overlaps, passed, last, replies, probe>>

----------------------------------------------------------------------------
(* processPayload: step start *)

\* neither a service inquiry nor gratitude: generate the first slots
StartGenerate(p) ==
  /\ At(p, "machine")
  /\ turn[p].step = "start"
  /\ detectQuestionType(turn[p].text) # "services"
  /\ ~detectGratitude(turn[p].text)
  /\ LET slots == generateTwoSlots(freeBusy(calendar))
     IN  turn' = IF Len(slots) < 1
                 THEN [turn EXCEPT ![p].pc = "persist", ![p].reply = "openQuestion",
                                   ![p].branch = "start"]
                 ELSE [turn EXCEPT ![p].pc = "persist", ![p].reply = "hardClose",
                                   ![p].branch = "start",
                                   ![p].step = "closing",
                                   ![p].ctx = trackOfferedSlots(@, slots, FALSE)]
  /\ UNCHANGED <<leads, convo, dedupe, calendar, now, nmsgs, overlaps, passed, last, replies, probe>>

----------------------------------------------------------------------------
(* processPayload: step closing *)

\* first test of the closing cascade: an FAQ question
IsFaq(text) ==
  /\ detectQuestionType(text) \notin {"unknown", "availability"}
  /\ ~detectStop(text)
  /\ ~detectHuman(text)
  /\ ~detectRegenerateSlots(text)

\* the instant of the dialogue: the eve of the first catalog day, at an hour
\* when the UTC date is the business date
Today ==
  [utcDay |-> (WeekdayIndex(FirstWeekday) - 2 + Len(Weekdays)) % Len(Weekdays),
   utcAhead |-> FALSE]

\* the text is none of FAQ question, stop, request for a human, request for
\* other options, and the attempt count is below the handoff threshold
ClosingRest(p) ==
  /\ At(p, "machine")
  /\ turn[p].step = "closing"
  /\ ~IsFaq(turn[p].text)
  /\ ~shouldTriggerGracefulDegradation(turn[p].ctx)
  /\ ~detectStop(turn[p].text)
  /\ ~detectHuman(turn[p].text)
  /\ ~detectRegenerateSlots(turn[p].text)

\* slot matching decides, whether the text carries a date or not
ClosingOther_IgnoresDate(p) ==
  ClosingRest(p)

\* the text carries no date: slot matching decides
ClosingOther(p) ==
  /\ ClosingRest(p)
  /\ extractRequestedDate(turn[p].text, Today) = NoDate

\* a slot was selected and is claimed without a look at the live calendar
ClosingSelect_NoCheck(p) ==
  /\ ClosingOther(p)
  /\ LET slot == tryMatchSlot(turn[p].text, turn[p].ctx.slots).slot
     IN  /\ slot # NoSlot
         /\ turn' = [turn EXCEPT ![p].pc = "claim", ![p].slot = slot]
  /\ UNCHANGED <<leads, convo, dedupe, calendar, now, nmsgs, overlaps, passed, last, replies, probe>>

\* a slot was selected: is it still free on the live calendar?
ClosingSelect(p) ==
  /\ ClosingOther(p)
  /\ LET slot == tryMatchSlot(turn[p].text, turn[p].ctx.slots).slot
     IN  /\ slot # NoSlot
         /\ turn' = IF isSlotStillFree(freeBusy(calendar), slot)
                    THEN [turn EXCEPT ![p].pc = "claim", ![p].slot = slot,
                                      ![p].stillFree = "free"]
                    ELSE [turn EXCEPT ![p].pc = "regenerate", ![p].slot = slot,
                                      ![p].stillFree = "busy",
                                      ![p].reply = "slotGone"]
  /\ UNCHANGED <<leads, convo, dedupe, calendar, now, nmsgs, overlaps, passed, last, replies, probe>>

\* an affirmative that names no slot
isAmbiguousAffirmative(text) == Includes(text, {"works", "good", "fine"})

\* nothing matched, no choice is pending, and the text is such an affirmative
IsAmbiguous(p) ==
  /\ tryMatchSlot(turn[p].text, turn[p].ctx.slots) = NoMatch
  /\ isAmbiguousAffirmative(turn[p].text)

\* "Which one? Reply with 1 for ... or 2 for ...": the labels of slots[0] and
\* slots[1] are read; with fewer than two stored slots the read of .label of
\* undefined throws a TypeError, which the catch of the event loop takes
ClosingAmbiguous(p) ==
  /\ ClosingOther(p)
  /\ IsAmbiguous(p)
  /\ turn' = IF Len(turn[p].ctx.slots) >= 2
             THEN [turn EXCEPT ![p].pc = "persist", ![p].branch = "ambiguous",
                               ![p].reply = "whichOne"]
             ELSE [turn EXCEPT ![p].pc = "error", ![p].branch = "ambiguous",
                               ![p].fail = "typeError"]
  /\ UNCHANGED <<leads, convo, dedupe, calendar, now, nmsgs, overlaps, passed, last, replies, probe>>

\* nothing matched: present the same slots again
ClosingUnknown(p) ==
  /\ ClosingOther(p)
  /\ ~tryMatchSlot(turn[p].text, turn[p].ctx.slots).matched
  /\ ~IsAmbiguous(p)
  /\ turn' = [turn EXCEPT ![p].pc = "persist", ![p].branch = "unknown",
                          ![p].reply =
                             IF tryMatchSlot(turn[p].text, turn[p].ctx.slots).requiresChoice
                             THEN "whichTime" ELSE "reClose"]
  /\ UNCHANGED <<leads, convo, dedupe, calendar, now, nmsgs, overlaps, passed, last, replies, probe>>

\* generateTwoSlots replaces the offered slots (no tracking)
Regenerate(p) ==
  /\ At(p, "regenerate")
  /\ turn' = [turn EXCEPT ![p].pc = "persist",
                          ![p].ctx.slots = generateTwoSlots(freeBusy(calendar))]
  /\ UNCHANGED <<leads, convo, dedupe, calendar, now, nmsgs, overlaps, passed, last, replies, probe>>

Claim(p) ==
  /\ At(p, "claim")
  /\ LET l == turn[p].lead
         r == tryClaimPendingSlot(leads[l], turn[p].slot, now)
     IN  /\ leads' = [leads EXCEPT ![l] = r.lead]
         /\ turn' = IF r.row
                    THEN [turn EXCEPT ![p].pc = "persist", ![p].claim = "row",
                                      ![p].step = "post_book_collect",
                                      ![p].ctx.collectStep = "address",
                                      ![p].reply = "claimedAskAddress"]
                    ELSE [turn EXCEPT ![p].pc = "claimReread", ![p].claim = "null"]
  /\ UNCHANGED <<convo, dedupe, calendar, now, nmsgs, overlaps, passed, last, replies, probe>>

\* the claim returned no row: re-read the lead and branch on what it holds
ClaimReread(p) ==
  /\ At(p, "claimReread")
  /\ LET freshLead == leads[turn[p].lead]
     IN  turn' = IF freshLead.pending_slot # NoSlot
                 THEN [turn EXCEPT ![p].pc = "persist", ![p].reply = "holding",
                                   ![p].step = "post_book_collect",
                                   ![p].ctx.collectStep = "address"]
                 ELSE IF freshLead.booked_slot # NoSlot
                 THEN [turn EXCEPT ![p].pc = "persist", ![p].reply = "alreadyBooked",
                                   ![p].step = "post_book_collect",
                                   ![p].ctx.collectStep = "done"]
                 ELSE [turn EXCEPT ![p].pc = "regenerate", ![p].reply = "reClose"]
  /\ UNCHANGED <<leads, convo, dedupe, calendar, now, nmsgs, overlaps, passed, last, replies, probe>>

----------------------------------------------------------------------------
(* processPayload: step post_book_collect *)

PbcOther(p) ==
  /\ At(p, "machine")
  /\ turn[p].step = "post_book_collect"
  /\ ~detectStop(turn[p].text)
  /\ ~detectHuman(turn[p].text)
  /\ ~detectChangeRequest(turn[p].text)

\* out-of-order guard: a slot selection while collecting
PbcLateSelect(p) ==
  /\ PbcOther(p)
  /\ tryMatchSlot(turn[p].text, turn[p].ctx.slots).matched
  /\ LET freshLead == leads[turn[p].lead]
     IN  turn' = IF freshLead.pending_slot # NoSlot
                 THEN [turn EXCEPT ![p].pc = "persist", ![p].reply = "holding",
                                   ![p].ctx.collectStep = "address"]
                 ELSE IF freshLead.booked_slot # NoSlot
                 THEN [turn EXCEPT ![p].pc = "persist", ![p].reply = "alreadyBooked",
                                   ![p].ctx.collectStep =
                                      IF @ = "none" THEN "address" ELSE @]
                 ELSE [turn EXCEPT ![p].pc = "persist", ![p].reply = "askAddress",
                                   ![p].ctx.collectStep = "address"]
  /\ UNCHANGED <<leads, convo, dedupe, calendar, now, nmsgs, overlaps, passed, last, replies, probe>>

PbcCollect(p) ==
  /\ PbcOther(p)
  /\ ~tryMatchSlot(turn[p].text, turn[p].ctx.slots).matched
  /\ detectQuestionType(turn[p].text) = "unknown"

\* the text is the address
PbcAddress(p) ==
  /\ PbcCollect(p)
  /\ turn[p].ctx.collectStep \in {"none", "address"}
  /\ turn' = [turn EXCEPT ![p].pc = "persist", ![p].reply = "askPhone",
                          ![p].ctx.address = TRUE, ![p].ctx.collectStep = "phone",
                          ![p].ctx.addressFor =
                             [slot |-> leads[turn[p].lead].pending_slot,
                              claimedAt |-> leads[turn[p].lead].pending_claimed_at]]
  /\ UNCHANGED <<leads, convo, dedupe, calendar, now, nmsgs, overlaps, passed, last, replies, probe>>

PbcDone(p) ==
  /\ PbcCollect(p)
  /\ turn[p].ctx.collectStep = "done"
  /\ turn' = [turn EXCEPT ![p].pc = "persist", ![p].reply = "gotIt"]
  /\ UNCHANGED <<leads, convo, dedupe, calendar, now, nmsgs, overlaps, passed, last, replies, probe>>

\* the text is the phone: finalize step 1, getPendingSlot
PbcPhone(p) ==
  /\ PbcCollect(p)
  /\ turn[p].ctx.collectStep = "phone"
  /\ LET row == leads[turn[p].lead]
         pending == getPendingSlot(row, now)
         t1 == [turn EXCEPT ![p].ctx.phone = TRUE, ![p].pending = pending,
                            ![p].expired = ClaimExpired(row, now)]
     IN  turn' = IF pending = NoPending
                 THEN [t1 EXCEPT ![p].pc = "release", ![p].reply = "pendingExpired"]
                 ELSE IF ~t1[p].ctx.address
                 THEN [t1 EXCEPT ![p].pc = "persist", ![p].reply = "missingAddress",
                                 ![p].ctx.collectStep = "address"]
                 ELSE [t1 EXCEPT ![p].pc = "staleness"]
  /\ UNCHANGED <<leads, convo, dedupe, calendar, now, nmsgs, overlaps, passed, last, replies, probe>>

\* finalize step 2: isSlotStillFree on the pending slot; the call is outside
\* the try block
Staleness(p) ==
  /\ At(p, "staleness")
  /\ \/ turn' = IF isSlotStillFree(freeBusy(calendar), turn[p].pending.slot)
                THEN Goto(p, "create")
                ELSE [turn EXCEPT ![p].pc = "release", ![p].fail = "busy",
                                  ![p].reply = "pendingExpired"]
     \/ turn' = [turn EXCEPT ![p].pc = "error", ![p].fail = "freeBusyThrows"]
  /\ UNCHANGED <<leads, convo, dedupe, calendar, now, nmsgs, overlaps, passed, last, replies, probe>>

\* finalize step 3: createEvent and the check of the returned id
CreateEvent(p) ==
  /\ At(p, "create")
  /\ \/ /\ calendar' = Append(calendar, [slot |-> turn[p].pending.slot,
                                         lead |-> turn[p].lead,
                                         claimedAt |-> turn[p].pending.claimedAt])
        /\ turn' = [turn EXCEPT ![p].pc = "finalizeRead",
                                ![p].eventId = Len(calendar) + 1]
     \/ /\ \E f \in {"createThrows", "emptyId"} :
             turn' = [turn EXCEPT ![p].pc = "release", ![p].fail = f,
                                  ![p].reply = "slotTaken"]
        /\ UNCHANGED calendar
  /\ UNCHANGED <<leads, convo, dedupe, now, nmsgs, overlaps, passed, last, replies, probe>>

\* finalize step 4, finalizeBookingWithDetails: getLeadById ...
FinalizeRead(p) ==
  /\ At(p, "finalizeRead")
  /\ LET row == leads[turn[p].lead]
     IN  turn' = IF row.pending_slot = NoSlot
                 THEN [turn EXCEPT ![p].pc = "release", ![p].fail = "finalizeThrows",
                                   ![p].reply = "slotTaken"]
                 ELSE [turn EXCEPT ![p].pc = "finalizePatch", ![p].read = row]
  /\ UNCHANGED <<leads, convo, dedupe, calendar, now, nmsgs, overlaps, passed, last, replies, probe>>

\* ... then the PATCH that moves pending to booked
FinalizePatch(p) ==
  /\ At(p, "finalizePatch")
  /\ \/ /\ leads' = [leads EXCEPT ![turn[p].lead] =
                       finalizeBookingWithDetails(@, turn[p].read, turn[p].eventId)]
        /\ turn' = [turn EXCEPT ![p].pc = "disable", ![p].finalized = TRUE]
     \/ /\ turn' = [turn EXCEPT ![p].pc = "release", ![p].fail = "finalizeThrows",
                                ![p].reply = "slotTaken"]
        /\ UNCHANGED leads
  /\ UNCHANGED <<convo, dedupe, calendar, now, nmsgs, overlaps, passed, last, replies, probe>>

\* disableBot, then the conversation is reset to start
DisableBot(p) ==
  /\ At(p, "disable")
  /\ \/ /\ leads' = [leads EXCEPT ![turn[p].lead] = disableBot(@)]
        /\ turn' = [turn EXCEPT ![p].pc = "persist", ![p].completed = TRUE,
                                ![p].step = "start", ![p].ctx = EmptyCtx,
                                ![p].reply = "finalizedBooking"]
     \/ /\ turn' = [turn EXCEPT ![p].pc = "release", ![p].fail = "disableThrows",
                                ![p].reply = "slotTaken"]
        /\ UNCHANGED leads
  /\ UNCHANGED <<convo, dedupe, calendar, now, nmsgs, overlaps, passed, last, replies, probe>>

\* restart of the flow: releasePendingClaim ...
Release(p) ==
  /\ At(p, "release")
  /\ leads' = [leads EXCEPT ![turn[p].lead] = releasePendingClaim(@)]
  /\ turn' = Goto(p, "restart")
  /\ UNCHANGED <<convo, dedupe, calendar, now, nmsgs, overlaps, passed, last, replies, probe>>

\* ... then fresh slots and back to closing
Restart(p) ==
  /\ At(p, "restart")
  /\ turn' = [turn EXCEPT ![p].pc = "persist", ![p].step = "closing",
                          ![p].ctx.collectStep = "none",
                          ![p].ctx.slots = generateTwoSlots(freeBusy(calendar))]
  /\ UNCHANGED <<leads, convo, dedupe, calendar, now, nmsgs, overlaps, passed, last, replies, probe>>

----------------------------------------------------------------------------
(* processPayload: end of the turn *)

\* Persist when the Send API takes a message without text
\* upsertConvoState, the outbound log, sendTextMessage; the Send API answers
\* a message without text with an error, and sendTextMessage throws
Persist(p) ==
  /\ At(p, "persist")
  /\ convo' = [convo EXCEPT ![turn[p].lead] =
                 [exists |-> TRUE, step |-> turn[p].step, ctx |-> turn[p].ctx]]
  /\ IF turn[p].reply = ""
     THEN /\ turn' = [turn EXCEPT ![p].pc = "error",
                                  ![p].fail = IF @ = "none" THEN "sendThrows" ELSE @]
          /\ UNCHANGED replies
     ELSE /\ replies' = [replies EXCEPT ![turn[p].key] = @ + 1]
          /\ turn' = [turn EXCEPT ![p] = IdleTurn]
  /\ UNCHANGED <<leads, dedupe, calendar, now, nmsgs, overlaps, passed, last, probe>>

\* the catch of the event loop: upsert again, log and send the fallback
ErrorHandler(p) ==
  /\ At(p, "error")
  /\ leads' = [leads EXCEPT ![turn[p].lead] = upsertLeadByPsid(@)]
  /\ replies' = [replies EXCEPT ![turn[p].key] = @ + 1]
  /\ turn' = [turn EXCEPT ![p] = IdleTurn]
  /\ UNCHANGED <<convo, dedupe, calendar, now, nmsgs, overlaps, passed, last, probe>>

\* the catch of the event loop when one of its own calls throws: the second
\* upsert (the lead row stays as it is), or the log or the send after it;
\* the exception is logged and nothing is sent
ErrorHandlerFails(p) ==
  /\ At(p, "error")
  /\ \E upserted \in BOOLEAN :
       leads' = IF upserted THEN [leads EXCEPT ![turn[p].lead] = upsertLeadByPsid(@)]
                ELSE leads
  /\ turn' = [turn EXCEPT ![p] = IdleTurn]
  /\ UNCHANGED <<convo, dedupe, calendar, now, nmsgs, overlaps, passed, last, replies, probe>>

----------------------------------------------------------------------------
(* processPayload: the branches for opt-out, change request, questions,    *)
(* day requests, handoff and attachments                                   *)

\* an event without text: the offered slots are presented again, generated
\* first when there are fewer than two
Attachment(p) ==
  /\ At(p, "load")
  /\ turn[p].text = NoText
  /\ LET l == turn[p].lead
         state == IF convo[l].exists THEN convo[l]
                  ELSE [exists |-> TRUE, step |-> "start", ctx |-> EmptyCtx]
     IN  /\ convo' = [convo EXCEPT ![l] = state]
         /\ turn' = IF Len(state.ctx.slots) < 2
                    THEN [turn EXCEPT ![p].pc = "persist", ![p].step = "closing",
                                      ![p].ctx = [state.ctx EXCEPT !.slots =
                                                    generateTwoSlots(freeBusy(calendar))],
                                      ![p].branch = "attachment",
                                      ![p].reply = "attachmentClose"]
                    ELSE [turn EXCEPT ![p].pc = "persist", ![p].step = state.step,
                                      ![p].ctx = state.ctx,
                                      ![p].branch = "attachment",
                                      ![p].reply = "attachmentClose"]
  /\ UNCHANGED <<leads, dedupe, calendar, now, nmsgs, overlaps, passed, last, replies, probe>>

\* deepSeekAnswer throws on a missing content and returns the content
\* trimmed: a content of blanks comes back as the empty text
deepSeekAnswer(content) ==
  CASE content = "text" -> "faqAnswer"
    [] content = "blanks" -> ""

\* closing, first test: a question is answered by DeepSeek or, when that
\* call throws, by the canned answer and the offer
ClosingFaq(p) ==
  /\ At(p, "machine")
  /\ turn[p].step = "closing"
  /\ IsFaq(turn[p].text)
  /\ \E deepSeek \in {"text", "blanks", "throws"} :
       turn' = [turn EXCEPT ![p].pc = "persist", ![p].branch = "faq",
                            ![p].reply = IF deepSeek = "throws" THEN "answerReClose"
                                         ELSE deepSeekAnswer(deepSeek),
                            ![p].ctx.slots = IF Len(@) = 0
                                             THEN generateTwoSlots(freeBusy(calendar))
                                             ELSE @]
  /\ UNCHANGED <<leads, convo, dedupe, calendar, now, nmsgs, overlaps, passed, last, replies, probe>>

\* closing, second test: the attempt count has reached the threshold
ClosingDegrade(p) ==
  /\ At(p, "machine")
  /\ turn[p].step = "closing"
  /\ ~IsFaq(turn[p].text)
  /\ shouldTriggerGracefulDegradation(turn[p].ctx)
  /\ leads' = [leads EXCEPT ![turn[p].lead] = setLeadStatus(@, "needs_followup")]
  /\ turn' = [turn EXCEPT ![p].pc = "persist", ![p].branch = "handoff",
                          ![p].reply = "handoff",
                          ![p].ctx = resetAttemptCount(@)]
  /\ UNCHANGED <<convo, dedupe, calendar, now, nmsgs, overlaps, passed, last, replies, probe>>

\* closing, third test: opt-out
ClosingStop(p) ==
  /\ At(p, "machine")
  /\ turn[p].step = "closing"
  /\ ~IsFaq(turn[p].text)
  /\ ~shouldTriggerGracefulDegradation(turn[p].ctx)
  /\ detectStop(turn[p].text)
  /\ leads' = [leads EXCEPT ![turn[p].lead] = setLeadStatus(@, "dead")]
  /\ turn' = [turn EXCEPT ![p].pc = "persist", ![p].branch = "stop",
                          ![p].reply = "stopResponse"]
  /\ UNCHANGED <<convo, dedupe, calendar, now, nmsgs, overlaps, passed, last, replies, probe>>

\* closing, fifth test: the sender asks for other options; two windows are
\* searched on the days that were not offered before
ClosingRegenerate(p) ==
  /\ At(p, "machine")
  /\ turn[p].step = "closing"
  /\ ~IsFaq(turn[p].text)
  /\ ~shouldTriggerGracefulDegradation(turn[p].ctx)
  /\ ~detectStop(turn[p].text)
  /\ ~detectHuman(turn[p].text)
  /\ detectRegenerateSlots(turn[p].text)
  /\ LET excludeDays == getExcludedDays(turn[p].ctx)
         newSlots == generateTwoSlotsFixedWindows(freeBusy(calendar), excludeDays, 2)
     IN  turn' = IF Len(newSlots) >= 2
                 THEN [turn EXCEPT ![p].pc = "persist", ![p].branch = "regenerate",
                                   ![p].reply = "sureReClose",
                                   ![p].ctx = trackOfferedSlots(@, newSlots, FALSE)]
                 ELSE [turn EXCEPT ![p].pc = "persist", ![p].branch = "regenerate",
                                   ![p].reply = "whatDayWorks"]
  /\ UNCHANGED <<leads, convo, dedupe, calendar, now, nmsgs, overlaps, passed, last, replies, probe>>

\* closing: the text names a date; slots of that date, or the closest ones
ClosingDate(p) ==
  /\ ClosingRest(p)
  /\ LET requestedDate == extractRequestedDate(turn[p].text, Today)
         busyBlocks == freeBusy(calendar)
         dateSlots == generateTwoSlotsForcedDate(busyBlocks,
                                                 daysAfterToday(requestedDate, Today))
         altSlots == generateTwoSlots(busyBlocks)
     IN  /\ requestedDate # NoDate
         /\ turn' = IF Len(dateSlots) >= 2
                    THEN [turn EXCEPT ![p].pc = "persist", ![p].branch = "date",
                                      ![p].forcedDate = daysAfterToday(requestedDate, Today),
                                      ![p].reply = "dateClose",
                                      ![p].ctx = trackOfferedSlots(@, dateSlots, TRUE)]
                    ELSE IF Len(dateSlots) = 1
                    THEN [turn EXCEPT ![p].pc = "persist", ![p].branch = "date",
                                      ![p].forcedDate = daysAfterToday(requestedDate, Today),
                                      ![p].reply = "oneSlotOnDate",
                                      ![p].ctx = trackOfferedSlots(@, dateSlots, TRUE)]
                    ELSE IF Len(altSlots) >= 2
                    THEN [turn EXCEPT ![p].pc = "persist", ![p].branch = "date",
                                      ![p].forcedDate = daysAfterToday(requestedDate, Today),
                                      ![p].reply = "dateBookedClosest",
                                      ![p].ctx = trackOfferedSlots(@, altSlots, FALSE)]
                    ELSE [turn EXCEPT ![p].pc = "persist", ![p].branch = "date",
                                      ![p].forcedDate = daysAfterToday(requestedDate, Today),
                                      ![p].reply = "dateBookedOtherDay"]
  /\ UNCHANGED <<leads, convo, dedupe, calendar, now, nmsgs, overlaps, passed, last, replies, probe>>

\* post_book_collect, first test: opt-out
PbcStop(p) ==
  /\ At(p, "machine")
  /\ turn[p].step = "post_book_collect"
  /\ detectStop(turn[p].text)
  /\ leads' = [leads EXCEPT ![turn[p].lead] = setLeadStatus(@, "dead")]
  /\ turn' = [turn EXCEPT ![p].pc = "persist", ![p].branch = "stop",
                          ![p].reply = "stopResponse"]
  /\ UNCHANGED <<convo, dedupe, calendar, now, nmsgs, overlaps, passed, last, replies, probe>>

\* post_book_collect, third test: a change request releases the booking ...
PbcChange(p) ==
  /\ At(p, "machine")
  /\ turn[p].step = "post_book_collect"
  /\ ~detectStop(turn[p].text)
  /\ ~detectHuman(turn[p].text)
  /\ detectChangeRequest(turn[p].text)
  /\ leads' = [leads EXCEPT ![turn[p].lead] = releaseBookingClaim(@)]
  /\ turn' = [turn EXCEPT ![p].pc = "changeStatus", ![p].branch = "change"]
  /\ UNCHANGED <<convo, dedupe, calendar, now, nmsgs, overlaps, passed, last, replies, probe>>

\* ... sets the status ...
ChangeStatus(p) ==
  /\ At(p, "changeStatus")
  /\ leads' = [leads EXCEPT ![turn[p].lead] = setLeadStatus(@, "active")]
  /\ turn' = Goto(p, "changeGenerate")
  /\ UNCHANGED <<convo, dedupe, calendar, now, nmsgs, overlaps, passed, last, replies, probe>>

\* ... and goes back to closing with slots on days not offered before (the
\* texts name no weekday)
ChangeGenerate(p) ==
  /\ At(p, "changeGenerate")
  /\ LET newSlots == generateTwoSlotsFixedWindows(freeBusy(calendar),
                                                  getExcludedDays(turn[p].ctx), 2)
         t1 == [turn EXCEPT ![p].pc = "persist", ![p].step = "closing",
                            ![p].ctx.collectStep = "none",
                            ![p].ctx.address = FALSE,
                            ![p].ctx.addressFor = NoPending]
     IN  turn' = IF Len(newSlots) >= 2
                 THEN [t1 EXCEPT ![p].reply = "changeOffer",
                                 ![p].ctx = trackOfferedSlots(@, newSlots, FALSE)]
                 ELSE [t1 EXCEPT ![p].reply = "changeWhatDay"]
  /\ UNCHANGED <<leads, convo, dedupe, calendar, now, nmsgs, overlaps, passed, last, replies, probe>>

----------------------------------------------------------------------------

\* the steps of a turn after its arrival
Turn(p) ==
  \/ Load(p)
  \/ StartGenerate(p)
  \/ ClosingSelect(p)
  \/ ClosingUnknown(p)
  \/ Regenerate(p)
  \/ Claim(p)
  \/ ClaimReread(p)
  \/ PbcLateSelect(p)
  \/ PbcAddress(p)
  \/ PbcDone(p)
  \/ PbcPhone(p)
  \/ Staleness(p)
  \/ CreateEvent(p)
  \/ FinalizeRead(p)
  \/ FinalizePatch(p)
  \/ DisableBot(p)
  \/ Release(p)
  \/ Restart(p)
  \/ Persist(p)
  \/ ErrorHandler(p)

\* one sender: every text, redeliveries, the clock
Next ==
  \/ \E p \in Procs, text \in Texts : Deliver(p, text)
  \/ \E p \in Procs : Redeliver(p)
  \/ Tick
  \/ \E p \in Procs : ResetRelease(p)
  \/ \E p \in Procs : ResetStatus(p)
  \/ \E p \in Procs : Turn(p)

Spec == Init /\ [][Next]_vars

\* several senders booking at the same time
NextTwo ==
  \/ \E p \in Procs, l \in Leads, text \in BookingTexts : DeliverTwo(p, l, text)
  \/ \E p \in Procs : Turn(p)

SpecTwo == Init /\ [][NextTwo]_vars

\* one sender who picks a time, changes their mind and sends the address
\* before the first replies have arrived
DeliverRace(p, text) ==
  /\ LowestFree(p)
  /\ Arrive(p, 1, nmsgs + 1, text, MaxMsgsRace, MaxOverlapRace)

\* the steps such a turn can take
TurnRace(p) ==
  \/ Load(p)
  \/ StartGenerate(p)
  \/ ClosingSelect(p)
  \/ ClosingUnknown(p)
  \/ Claim(p)
  \/ ClaimReread(p)
  \/ PbcLateSelect(p)
  \/ PbcAddress(p)
  \/ PbcPhone(p)
  \/ Staleness(p)
  \/ CreateEvent(p)
  \/ FinalizeRead(p)
  \/ FinalizePatch(p)
  \/ DisableBot(p)
  \/ Release(p)
  \/ Restart(p)
  \/ Persist(p)
  \/ ErrorHandler(p)

NextRace ==
  \/ \E p \in Procs, text \in RaceTexts : DeliverRace(p, text)
  \/ \E p \in Procs : TurnRace(p)

SpecRace == Init /\ [][NextRace]_vars

\* an event of the first sender that arrives when no turn is in flight
DeliverDialog(p, text) ==
  /\ LowestFree(p)
  /\ \A q \in Procs : Free(q)
  /\ Receive(p, 1, nmsgs + 1, text, MaxMsgsDialog)

\* the same, but the inbound log (or another call before the bot_enabled
\* check) throws: the turn continues in the catch of the event loop
ArriveFails(p, text, limit) ==
  /\ LowestFree(p)
  /\ \A q \in Procs : Free(q)
  /\ nmsgs < limit
  /\ LET row == upsertLeadByPsid(leads[1])
         r == tryInsertDedupe(dedupe, nmsgs + 1)
     IN  /\ nmsgs' = nmsgs + 1
         /\ last' = [lead |-> 1, key |-> nmsgs + 1, text |-> text]
         /\ leads' = [leads EXCEPT ![1] = row]
         /\ dedupe' = r.table
         /\ passed' = [passed EXCEPT ![nmsgs + 1] = @ + 1]
         /\ turn' = [turn EXCEPT ![p] = [IdleTurn EXCEPT !.pc = "error", !.lead = 1,
                                                         !.key = nmsgs + 1, !.text = text,
                                                         !.enabled = row.bot_enabled,
                                                         !.fail = "inboundLogThrows"]]
  /\ UNCHANGED <<convo, calendar, now, overlaps, replies, probe>>

DeliverFails(p, text) == ArriveFails(p, text, MaxMsgsDialog)

\* the steps of a turn in a dialogue of one sender
TurnDialog(p) ==
  \/ Load(p)
  \/ Attachment(p)
  \/ ResetRelease(p)
  \/ ResetStatus(p)
  \/ StartGenerate(p)
  \/ ClosingFaq(p)
  \/ ClosingDegrade(p)
  \/ ClosingStop(p)
  \/ ClosingRegenerate(p)
  \/ ClosingDate(p)
  \/ ClosingSelect(p)
  \/ ClosingUnknown(p)
  \/ ClosingAmbiguous(p)
  \/ Claim(p)
  \/ ClaimReread(p)
  \/ PbcStop(p)
  \/ PbcChange(p)
  \/ ChangeStatus(p)
  \/ ChangeGenerate(p)
  \/ PbcLateSelect(p)
  \/ PbcAddress(p)
  \/ PbcDone(p)
  \/ PbcPhone(p)
  \/ Staleness(p)
  \/ CreateEvent(p)
  \/ FinalizeRead(p)
  \/ FinalizePatch(p)
  \/ DisableBot(p)
  \/ Release(p)
  \/ Restart(p)
  \/ Persist(p)
  \/ ErrorHandler(p)

\* one sender whose messages are handled one after the other
NextDialog ==
  \/ \E p \in Procs, text \in DialogTexts : DeliverDialog(p, text)
  \/ \E p \in Procs, text \in DialogTexts : DeliverFails(p, text)
  \/ \E p \in Procs : TurnDialog(p)

SpecDialog == Init /\ [][NextDialog]_vars

\* a short dialogue in which any call of the event loop may throw, the calls
\* of its catch included
FallbackTexts == {<<"1">>, <<"hi">>}

DeliverFallback(p, text) ==
  /\ LowestFree(p)
  /\ \A q \in Procs : Free(q)
  /\ Receive(p, 1, nmsgs + 1, text, MaxMsgsFallback)

DeliverFallbackFails(p, text) == ArriveFails(p, text, MaxMsgsFallback)

TurnFallback(p) ==
  \/ Load(p)
  \/ ResetRelease(p)
  \/ ResetStatus(p)
  \/ StartGenerate(p)
  \/ ClosingSelect(p)
  \/ Claim(p)
  \/ PbcLateSelect(p)
  \/ Persist(p)
  \/ ErrorHandler(p)
  \/ ErrorHandlerFails(p)

NextFallback ==
  \/ \E p \in Procs, text \in FallbackTexts : DeliverFallback(p, text)
  \/ \E p \in Procs, text \in FallbackTexts : DeliverFallbackFails(p, text)
  \/ \E p \in Procs : TurnFallback(p)

SpecFallback == Init /\ [][NextFallback]_vars

\* the booking dialogue without detour: a first message, the selection of an
\* offered slot, the address, the phone number, each sent when the turn
\* before it has ended
BookingScript ==
  <<{<<"hi">>, <<"42", "elm", "st">>}, {<<"1">>, <<"2">>},
    {<<"42", "elm", "st">>}, {<<"42", "elm", "st">>}>>

DeliverBooking(p) ==
  /\ LowestFree(p)
  /\ \A q \in Procs : Free(q)
  /\ nmsgs < Len(BookingScript)
  /\ \E text \in BookingScript[nmsgs + 1] :
       Receive(p, 1, nmsgs + 1, text, Len(BookingScript))

\* the step of worker p in which no collaborator call throws or refuses
Succeeds(p) ==
  /\ turn'[p].fail = "none"
  /\ turn'[p].pc \notin {"error", "release"}

TurnBooking(p) ==
  \/ Load(p) /\ Succeeds(p)
  \/ ResetRelease(p) /\ Succeeds(p)
  \/ ResetStatus(p) /\ Succeeds(p)
  \/ StartGenerate(p) /\ Succeeds(p)
  \/ ClosingSelect(p) /\ Succeeds(p)
  \/ Claim(p) /\ Succeeds(p)
  \/ PbcAddress(p) /\ Succeeds(p)
  \/ PbcPhone(p) /\ Succeeds(p)
  \/ Staleness(p) /\ Succeeds(p)
  \/ CreateEvent(p) /\ Succeeds(p)
  \/ FinalizeRead(p) /\ Succeeds(p)
  \/ FinalizePatch(p) /\ Succeeds(p)
  \/ DisableBot(p) /\ Succeeds(p)
  \/ Persist(p) /\ Succeeds(p)

\* time passes, and the claim stays within its TTL
TickWithinTTL ==
  /\ Tick
  /\ now' <= PendingTTL

BookingStep == \E p \in Procs : DeliverBooking(p) \/ TurnBooking(p)

NextBooking ==
  \/ BookingStep
  \/ TickWithinTTL

\* every awaited call returns and the sender goes on with the dialogue
SpecBooking == Init /\ [][NextBooking]_vars /\ WF_vars(BookingStep)

\* a calendar on which an earlier customer, the last lead, holds the first n
\* windows: the bookings before the last one were given up with a greeting,
\* which leaves their events on the calendar
BookedBefore(n) ==
  [i \in 1..n |-> [slot |-> i, lead |-> NumLeads, claimedAt |-> 0]]

InitScarce ==
  /\ \E n \in {NumSlots - 1, NumSlots} :
       /\ calendar = BookedBefore(n)
       /\ leads = [l \in Leads |->
                     IF l = NumLeads
                     THEN [NewLead EXCEPT !.status = "booked", !.bot_enabled = FALSE,
                                          !.booked_event_id = n, !.booked_slot = n]
                     ELSE NoLead]
  /\ convo = [l \in Leads |->
                IF l = NumLeads
                THEN [exists |-> TRUE, step |-> "start", ctx |-> EmptyCtx]
                ELSE NoConvo]
  /\ dedupe = {}
  /\ now = 0
  /\ nmsgs = 0
  /\ overlaps = 0
  /\ passed = [k \in Keys |-> 0]
  /\ replies = [k \in Keys |-> 0]
  /\ last = [lead |-> 0, key |-> 0, text |-> NoText]
  /\ turn = [p \in Procs |-> IdleTurn]
  /\ probe = NoProbe

\* what the first lead writes when at most one window is left
ScarceTexts == {<<"hi">>, <<"1">>, <<"fine">>, NoText}

DeliverScarce(p, text) ==
  /\ LowestFree(p)
  /\ \A q \in Procs : Free(q)
  /\ Receive(p, 1, nmsgs + 1, text, MaxMsgsScarce)

TurnScarce(p) ==
  \/ Load(p)
  \/ Attachment(p)
  \/ ResetRelease(p)
  \/ ResetStatus(p)
  \/ StartGenerate(p)
  \/ ClosingSelect(p)
  \/ ClosingUnknown(p)
  \/ ClosingAmbiguous(p)
  \/ Claim(p)
  \/ PbcLateSelect(p)
  \/ PbcAddress(p)
  \/ PbcPhone(p)
  \/ Staleness(p)
  \/ CreateEvent(p)
  \/ FinalizeRead(p)
  \/ FinalizePatch(p)
  \/ DisableBot(p)
  \/ Release(p)
  \/ Restart(p)
  \/ Persist(p)
  \/ ErrorHandler(p)

NextScarce ==
  \/ \E p \in Procs, text \in ScarceTexts : DeliverScarce(p, text)
  \/ \E p \in Procs : TurnScarce(p)

SpecScarce == InitScarce /\ [][NextScarce]_vars

\* a sender who answers an offer with the label of a slot, as the offer
\* printed it
LabelTexts == {<<"hi">>, <<"2">>} \cup {formatSlotLabel(s) : s \in Slots}

DeliverLabel(p, text) ==
  /\ LowestFree(p)
  /\ \A q \in Procs : Free(q)
  /\ Receive(p, 1, nmsgs + 1, text, MaxMsgsLabel)

TurnLabel(p) ==
  \/ Load(p)
  \/ ResetRelease(p)
  \/ ResetStatus(p)
  \/ StartGenerate(p)
  \/ ClosingDate(p)
  \/ ClosingSelect(p)
  \/ Claim(p)
  \/ PbcLateSelect(p)
  \/ PbcAddress(p)
  \/ PbcPhone(p)
  \/ Staleness(p)
  \/ CreateEvent(p)
  \/ FinalizeRead(p)
  \/ FinalizePatch(p)
  \/ DisableBot(p)
  \/ Release(p)
  \/ Restart(p)
  \/ Persist(p)
  \/ ErrorHandler(p)

NextLabel ==
  \/ \E p \in Procs, text \in LabelTexts : DeliverLabel(p, text)
  \/ \E p \in Procs : TurnLabel(p)

SpecLabel == Init /\ [][NextLabel]_vars

----------------------------------------------------------------------------
(* The pure functions of the date parser and the slot matcher, called on    *)
(* every argument of a bounded set                                          *)

\* the slot lists the two generators return for some state of the calendar
OfferedSlotLists ==
  {generateTwoSlots(busy) : busy \in SUBSET Slots}
    \cup {generateTwoSlotsFixedWindows(busy, {}, 1) : busy \in SUBSET Slots}

\* replies to an offer: the labels of the catalog, index tokens, a
\* confirmation, times in their spellings, a weekday, an address
MatchTexts ==
  {formatSlotLabel(s) : s \in Slots}
    \cup {<<"1">>, <<"2">>, <<"yes">>, <<"ok">>, <<"sounds", "good">>, <<"3">>, <<"12:00">>, <<"3pm">>, <<"noon">>,
          <<"3:00", "pm">>, <<FirstWeekday>>, <<"42", "elm", "st">>}

Qualifiers == {<<>>, <<"this">>, <<"next">>}

DayWords ==
  {<<>>, <<"today">>, <<"tomorrow">>} \cup {<<Weekdays[i]>> : i \in 1..Len(Weekdays)}

OrdinalWords == {<<>>, <<"the", "17th">>}

TimeWords == {<<>>, <<"at", "3">>, <<"3:00">>, <<"3", "pm">>, <<"3pm">>}

\* texts like "next friday", "tomorrow at 3", "the 17th 3:00", "this monday 3 pm"
DateTexts ==
  {q \o d \o o \o t : q \in Qualifiers, d \in DayWords, o \in OrdinalWords, t \in TimeWords}
    \ {NoText}

MatchProbes ==
  {[NoProbe EXCEPT !.fn = "tryMatchSlot", !.text = t, !.slots = sl] :
     t \in MatchTexts, sl \in OfferedSlotLists}

DateProbes ==
  {[NoProbe EXCEPT !.fn = "extractRequestedDate", !.text = t, !.instant = i] :
     t \in DateTexts, i \in Instants}

InitParse ==
  /\ InitStore
  /\ probe \in MatchProbes \cup DateProbes

Match ==
  /\ probe.fn = "tryMatchSlot"
  /\ ~probe.done
  /\ probe' = [probe EXCEPT !.done = TRUE,
                            !.match = tryMatchSlot(probe.text, probe.slots)]
  /\ UNCHANGED <<leads, convo, dedupe, calendar, now, nmsgs, overlaps, passed, last, replies, turn>>

Extract ==
  /\ probe.fn = "extractRequestedDate"
  /\ ~probe.done
  /\ probe' = [probe EXCEPT !.done = TRUE,
                            !.date = extractRequestedDate(probe.text, probe.instant)]
  /\ UNCHANGED <<leads, convo, dedupe, calendar, now, nmsgs, overlaps, passed, last, replies, turn>>

NextParse ==
  \/ Match
  \/ Extract

SpecParse == InitParse /\ [][NextParse]_vars

----------------------------------------------------------------------------
(* The slot generators, called on every argument of a bounded set           *)

\* the date of the clock; date 0 is the day before
ClockDate == 1

\* 1 PM (both windows of today are ahead), 3 PM (the first window ends now),
\* 6 PM (the second window ends now)
AtInstants == {makeDateInTZ(ClockDate, h) : h \in {13, 15, 18}}

\* busy blocks of a day: one that ends where the first window starts, the
\* first window, one across both windows, the second window
BlockShapes == {<<9, 12>>, <<12, 15>>, <<13, 16>>, <<15, 18>>}

\* a block from date 0 to noon of a date beyond the primary range
LongBlock == [start |-> 0, end |-> makeDateInTZ(LongBlockEnd, 12)]

Blocks ==
  {[start |-> makeDateInTZ(d, sh[1]), end |-> makeDateInTZ(d, sh[2])] :
     d \in ClockDate..MaxBusyDate, sh \in BlockShapes} \cup {LongBlock}

BusySets == {S \in SUBSET Blocks : Cardinality(S) <= MaxBusy}

ForcedDates == 0..MaxBusyDate

ExcludeSets == SUBSET {weekdayOf(ClockDate), weekdayOf(ClockDate + 1)}

\* the range starts today or after the default offset; the clocks do not
\* fall back, or they do on a date of the range
RangeCases ==
  {[startOffset |-> 0, fall |-> NoDay],
   [startOffset |-> 0, fall |-> ClockDate],
   [startOffset |-> DefaultStartOffset, fall |-> NoDay],
   [startOffset |-> DefaultStartOffset, fall |-> ClockDate + DefaultStartOffset - 1]}

\* generateTwoSlotsFixedWindows(14, excludeDays, 2), (14, [], 999) and the
\* two calls inside generateTwoSlots
FixedWindowsCalls ==
  {[days |-> DaysFallback, maxSlots |-> 2, excludeDays |-> ex] : ex \in ExcludeSets}
    \cup {[days |-> d, maxSlots |-> NoLimit, excludeDays |-> {}] :
            d \in {DaysPrimary, DaysFallback}}

DateGenProbes ==
  {[NoProbe EXCEPT !.fn = "generateSlotsForSpecificDate", !.forcedDate = fd,
                   !.at = t, !.blocks = bs] :
     fd \in ForcedDates, t \in AtInstants, bs \in BusySets}

TwoGenProbes ==
  {[NoProbe EXCEPT !.fn = "generateTwoSlots", !.forcedDate = fd,
                   !.startOffset = DefaultStartOffset, !.at = t, !.blocks = bs] :
     fd \in ForcedDates, t \in AtInstants, bs \in BusySets}
    \cup
  {[NoProbe EXCEPT !.fn = "generateTwoSlots", !.startOffset = r.startOffset,
                   !.fall = r.fall, !.at = t, !.blocks = bs] :
     r \in RangeCases, t \in AtInstants, bs \in BusySets}

FixedGenProbes ==
  {[NoProbe EXCEPT !.fn = "generateTwoSlotsFixedWindows", !.days = c.days,
                   !.maxSlots = c.maxSlots, !.excludeDays = c.excludeDays,
                   !.startOffset = r.startOffset, !.fall = r.fall, !.at = t,
                   !.blocks = bs] :
     c \in FixedWindowsCalls, r \in RangeCases, t \in AtInstants, bs \in BusySets}

InitSlots ==
  /\ InitStore
  /\ probe \in DateGenProbes \cup TwoGenProbes \cup FixedGenProbes

GenDate ==
  /\ probe.fn = "generateSlotsForSpecificDate"
  /\ ~probe.done
  /\ probe' = [probe EXCEPT
                 !.done = TRUE,
                 !.out = generateSlotsForSpecificDateAt(probe.forcedDate, probe.at, probe.blocks)]
  /\ UNCHANGED <<leads, convo, dedupe, calendar, now, nmsgs, overlaps, passed, last, replies, turn>>

GenTwo ==
  /\ probe.fn = "generateTwoSlots"
  /\ ~probe.done
  /\ probe' = [probe EXCEPT
                 !.done = TRUE,
                 !.out = generateTwoSlotsAt(probe.forcedDate, probe.startOffset, probe.at,
                                            probe.blocks, probe.fall)]
  /\ UNCHANGED <<leads, convo, dedupe, calendar, now, nmsgs, overlaps, passed, last, replies, turn>>

GenFixed ==
  /\ probe.fn = "generateTwoSlotsFixedWindows"
  /\ ~probe.done
  /\ probe' = [probe EXCEPT
                 !.done = TRUE,
                 !.out = generateTwoSlotsFixedWindowsAt(probe.days, probe.excludeDays,
                                                        probe.maxSlots, probe.startOffset,
                                                        probe.at, probe.blocks, probe.fall)]
  /\ UNCHANGED <<leads, convo, dedupe, calendar, now, nmsgs, overlaps, passed, last, replies, turn>>

NextSlots ==
  \/ GenDate
  \/ GenTwo
  \/ GenFixed

SpecSlots == InitSlots /\ [][NextSlots]_vars

----------------------------------------------------------------------------
(* Properties *)

\* the turn of worker p ends with this step
Ends(p) == turn[p].pc # "idle" /\ turn'[p].pc = "idle"

\* the events on the calendar that were created for one pending claim
EventsOfClaim(l, slot, claimedAt) ==
  {i \in 1..Len(calendar) : /\ calendar[i].lead = l
                            /\ calendar[i].slot = slot
                            /\ calendar[i].claimedAt = claimedAt}

\* C1: of two claim attempts for different slots that are in flight at the
\* same time on one lead without a finalized booking, exactly one gets the
\* row back and the other gets null.
C1_ExclusiveClaim ==
  \A p, q \in Procs :
    ( /\ p # q
      /\ turn[p].lead = turn[q].lead
      /\ turn[p].claim # "none"
      /\ turn[q].claim # "none"
      /\ turn[p].slot # turn[q].slot
      /\ leads[turn[p].lead].booked_event_id = NoEvent )
    => (turn[p].claim = "row") # (turn[q].claim = "row")

\* C2: at most one calendar reservation is created per pending claim,
\* whatever the number of deliveries that reach the phone sub-step.
C2_OneEventPerClaim ==
  \A i \in 1..Len(calendar) :
    Cardinality(EventsOfClaim(calendar[i].lead, calendar[i].slot,
                              calendar[i].claimedAt)) = 1

\* C3: two different leads never both get a reservation for the same slot.
C3_NoDoubleBooking ==
  \A i, j \in 1..Len(calendar) :
    calendar[i].lead # calendar[j].lead => calendar[i].slot # calendar[j].slot

\* C4: a finalize attempt that finds the claim older than the TTL creates no
\* reservation and writes no booking, releases the claim (pending fields
\* cleared) and ends the turn with the conversation in step closing.
C4_ExpiredClaimNotFinalized ==
  [][\A p \in Procs :
       /\ turn'[p].expired =>
            /\ turn'[p].eventId = NoEvent
            /\ ~turn'[p].finalized
            /\ turn'[p].pc \in {"release", "restart", "persist"}
       /\ (turn[p].expired /\ turn[p].pc = "release" /\ turn'[p].pc # "release") =>
            /\ leads'[turn[p].lead].pending_slot = NoSlot
            /\ leads'[turn[p].lead].pending_claimed_at = NoTime
       /\ (turn[p].expired /\ Ends(p)) =>
            convo'[turn[p].lead].step = "closing"
    ]_vars

C4_Witness ==
  \E p \in Procs :
    /\ turn[p].expired
    /\ turn[p].pc = "persist"
    /\ turn[p].step = "closing"
    /\ leads[turn[p].lead].pending_slot = NoSlot

\* C5: a turn whose finalize failed at or after the re-verification of the
\* slot ends with no pending claim on the lead and the conversation in step
\* closing.
C5_FailedFinalizeReleases ==
  [][\A p \in Procs :
       (turn[p].fail # "none" /\ Ends(p)) =>
          /\ leads'[turn[p].lead].pending_slot = NoSlot
          /\ leads'[turn[p].lead].pending_claimed_at = NoTime
          /\ convo'[turn[p].lead].step = "closing"
    ]_vars

\* C6: once a finalize has run to its end, the lead has no pending claim, its
\* booked slot is the claimed slot the reservation was created for, its
\* booked_event_id is the id createEvent returned, and the bot is disabled.
C6_FinalizedLead ==
  \A p \in Procs :
    turn[p].completed =>
      LET row == leads[turn[p].lead]
      IN  /\ row.pending_slot = NoSlot
          /\ row.pending_claimed_at = NoTime
          /\ row.booked_slot = turn[p].pending.slot
          /\ row.booked_event_id = turn[p].eventId
          /\ ~row.bot_enabled

\* C7: no lead row holds a pending claim and a booked_event_id at once.
C7_PendingXorBooked ==
  \A l \in Leads :
    ~(leads[l].pending_slot # NoSlot /\ leads[l].booked_event_id # NoEvent)

C7_Witness ==
  \E p \in Procs :
    /\ turn[p].claim = "null"
    /\ leads[turn[p].lead].booked_event_id # NoEvent

\* C8: booked_event_id is written only by a turn whose createEvent returned
\* an id, to that id, and the same write sets the booked slot and clears the
\* pending fields; the booked slot and the event id are set or empty together.
C8_AtomicFinalize ==
  [][\A l \in Leads :
       /\ (leads'[l].booked_slot # NoSlot) <=> (leads'[l].booked_event_id # NoEvent)
       /\ (leads'[l].booked_event_id # leads[l].booked_event_id
             /\ leads'[l].booked_event_id # NoEvent) =>
            /\ \E p \in Procs :
                 /\ turn[p].lead = l
                 /\ turn[p].eventId # NoEvent
                 /\ turn[p].eventId \in 1..Len(calendar)
                 /\ leads'[l].booked_event_id = turn[p].eventId
            /\ leads'[l].booked_slot # NoSlot
            /\ leads'[l].pending_slot = NoSlot
            /\ leads'[l].pending_claimed_at = NoTime
    ]_vars

C8_Witness ==
  \E p \in Procs :
    /\ turn[p].pc = "disable"
    /\ turn[p].finalized
    /\ leads[turn[p].lead].booked_event_id = turn[p].eventId
    /\ leads[turn[p].lead].pending_slot = NoSlot

\* C9: of all deliveries with one dedupe key at most one gets past the dedupe
\* check, and at most one reply is sent for the key.
C9_OnePassPerKey ==
  \A k \in Keys : passed[k] <= 1 /\ replies[k] <= passed[k]

C9_Witness ==
  /\ last.key # 0
  /\ nmsgs > Cardinality(dedupe)
  /\ passed[last.key] = 1
  /\ replies[last.key] = 1

\* C10: a retried delivery of a message that was already handled changes
\* neither the lead row nor the conversation state and sends no reply.
C10_RetryIsNoOp ==
  [][( /\ nmsgs' = nmsgs + 1
       /\ last'.key \in dedupe
       /\ \A p \in Procs : turn[p].key # last'.key )
     => /\ leads' = leads
        /\ convo' = convo
        /\ replies' = replies
        /\ turn' = turn
    ]_vars

\* the statuses that only a reset greeting or a change-request may leave
StableStatuses == {"booked", "dead", "needs_followup"}

\* C13: once a lead's status is booked, dead or needs_followup, processing a
\* message that is neither a reset greeting nor a change-request leaves the
\* status as it is.
C13_StableStatus ==
  [][\A l \in Leads :
       (leads[l].status \in StableStatuses /\ leads'[l].status # leads[l].status) =>
          \/ /\ nmsgs' # nmsgs
             /\ last'.lead = l
             /\ (last'.text \in greetings \/ detectChangeRequest(last'.text))
          \/ \E p \in Procs :
               /\ turn[p].pc # "idle"
               /\ turn[p].lead = l
               /\ (turn[p].text \in greetings \/ detectChangeRequest(turn[p].text))
    ]_vars

\* a weekday request: an optional "this" or "next" and the name of a weekday
WeekdayRequests ==
  {q \o <<Weekdays[i]>> : q \in Qualifiers, i \in 1..Len(Weekdays)}

\* the weekday of the business date of an instant, 0 = Sunday
businessDay(instant) ==
  (instant.utcDay - (IF instant.utcAhead THEN 1 ELSE 0) + Len(Weekdays)) % Len(Weekdays)

\* C18: for every current weekday and every target weekday, a request with
\* "next" resolves to a date 7 to 13 days after today, and a request with
\* "this" or without qualifier to a date 0 to 6 days after today, 0 when today
\* is that weekday.
C18_WeekdayRange ==
  (probe.fn = "extractRequestedDate" /\ probe.done /\ probe.text \in WeekdayRequests) =>
     LET days == daysAfterToday(probe.date, probe.instant)
         target == WeekdayIndex(probe.text[Len(probe.text)]) - 1
     IN  /\ probe.date.kind = "relative"
         /\ IF probe.text[1] = "next"
            THEN days \in Len(Weekdays)..(2 * Len(Weekdays) - 1)
            ELSE /\ days \in 0..(Len(Weekdays) - 1)
                 /\ (target = businessDay(probe.instant)) => days = 0

\* C19: for every text that contains a time-of-day indicator (am/pm, HH:MM,
\* "at" and a number of one or two digits), extractRequestedDate returns none,
\* whatever else the text contains.
C19_TimeIndicatorRejected ==
  (probe.fn = "extractRequestedDate" /\ probe.done /\ hasTimeIndicator(probe.text)) =>
     probe.date = NoDate

\* C20: for every offered list of one or two slots and every slot s of it,
\* tryMatchSlot on the label of s returns matched with slot s, also when both
\* slots are on the same weekday.
C20_LabelRoundTrip ==
  \A s \in SlotsOf(probe.slots) :
    (probe.fn = "tryMatchSlot" /\ probe.done /\ probe.text = formatSlotLabel(s)) =>
       /\ probe.match.matched
       /\ probe.match.slot = s

C23_ConfirmNeverGuesses ==
  [][\A p \in Procs :
       ( /\ ClosingOther(p)
         /\ isConfirmWord(turn[p].text)
         /\ Len(turn[p].text) = 1
         /\ Len(turn[p].ctx.slots) = 2
         /\ turn[p].ctx.slots[1] # turn[p].ctx.slots[2]
         /\ turn'[p] # turn[p] ) =>
          /\ turn'[p].pc = "persist"
          /\ turn'[p].reply = "whichTime"
          /\ turn'[p].slot = NoSlot
    ]_vars

\* C24: a claim is attempted only by a turn whose live calendar check said
\* free for the selected slot; a turn whose check said busy makes no claim,
\* replaces the offered slots by freshly generated ones and leaves the
\* conversation in step closing.
C24_ClaimAfterFreeCheck ==
  [][\A p \in Procs :
       /\ (turn[p].pc = "claim" /\ turn'[p].pc # "claim") =>
             /\ turn[p].stillFree = "free"
             /\ turn[p].slot # NoSlot
       /\ (turn[p].stillFree = "busy" /\ turn[p].pc = "regenerate" /\ turn'[p].pc # "regenerate") =>
             /\ turn'[p].ctx.slots = generateTwoSlots(freeBusy(calendar))
             /\ turn[p].slot \notin SlotsOf(turn'[p].ctx.slots)
             /\ turn'[p].pc = "persist"
       /\ (turn[p].stillFree = "busy" /\ turn[p].pc # "idle") =>
             /\ turn[p].claim = "none"
             /\ turn[p].step = "closing"
             /\ leads'[turn[p].lead].pending_slot = leads[turn[p].lead].pending_slot
                  \/ turn'[p] = turn[p]
    ]_vars

\* a turn that found its slot taken is about to persist the new offer
C24_Witness ==
  \E p \in Procs :
    /\ turn[p].pc = "persist"
    /\ turn[p].stillFree = "busy"
    /\ turn[p].step = "closing"
    /\ turn[p].reply = "slotGone"
    /\ Len(turn[p].ctx.slots) >= 1

C26_StepTransitions ==
  [][\A l \in Leads :
       /\ convo'[l].step \in {"start", "closing", "post_book_collect"}
       /\ (convo[l].step # "post_book_collect" /\ convo'[l].step = "post_book_collect") =>
             \E p \in Procs :
               /\ turn[p].lead = l
               /\ turn[p].pc = "persist"
               /\ turn'[p].pc = "idle"
               /\ \/ turn[p].claim = "row"
                  \/ /\ turn[p].claim = "null"
                     /\ turn[p].reply \in {"holding", "alreadyBooked"}
       /\ (convo[l].exists /\ convo[l].step # "start" /\ convo'[l].step = "start") =>
             \E p \in Procs :
               /\ turn[p].lead = l
               /\ turn[p].pc = "persist"
               /\ turn'[p].pc = "idle"
               /\ turn[p].completed \/ turn[p].text \in greetings
    ]_vars

\* C27: attemptCount counts the unsuccessful day/date requests since the
\* last successful match, handoff or reset: a turn that offers what the user
\* asked for, hands off, resets or completes the booking ends with 0, a
\* turn whose date request found nothing on that date adds exactly 1, and
\* every other turn leaves the counter as it was.
C27_AttemptCount ==
  [][\A p \in Procs :
       (turn[p].pc = "persist" /\ turn'[p].pc = "idle") =>
          LET old == convo[turn[p].lead].ctx.attemptCount
              new == convo'[turn[p].lead].ctx.attemptCount
          IN  IF \/ turn[p].text \in greetings
                 \/ turn[p].completed
                 \/ turn[p].branch = "handoff"
                 \/ turn[p].reply \in {"dateClose", "oneSlotOnDate"}
              THEN new = 0
              ELSE IF turn[p].reply \in {"dateBookedClosest", "dateBookedOtherDay"}
              THEN new = old + 1
              ELSE new = old
    ]_vars

\* C22: every slot list a generator returns (generateTwoSlots,
\* generateSlotsForSpecificDate, generateTwoSlotsFixedWindows) has no two
\* slots with the same (start, end), and every slot of it ends strictly
\* after the instant of the generation.
C22_DistinctAndAhead ==
  (probe.done /\ probe.fn \in {"generateTwoSlots", "generateSlotsForSpecificDate",
                               "generateTwoSlotsFixedWindows"}) =>
     /\ \A i, j \in 1..Len(probe.out) : i # j => probe.out[i] # probe.out[j]
     /\ \A i \in 1..Len(probe.out) : probe.out[i].end > probe.at

\* the search starts today at 3 PM, when the first window has just ended,
\* over a range in which the clocks fall back today: today is visited twice
\* and its second window is returned once, followed by a later window
C22_Witness ==
  /\ probe.done
  /\ probe.fn = "generateTwoSlotsFixedWindows"
  /\ probe.startOffset = 0
  /\ probe.fall = ClockDate
  /\ probe.at = makeDateInTZ(ClockDate, 15)
  /\ Len(probe.out) >= 2
  /\ probe.out[1].start = probe.at
  /\ DateOf(probe.out[2].start) > ClockDate

\* C30: no slot a generator returns overlaps a busy block of the calendar it
\* consulted, where two intervals overlap when each starts before the other
\* ends; and a window of the requested date that is still ahead is returned
\* when every busy block ends at or before its start or starts at or after
\* its end, so a block that only touches the window does not exclude it.
C30_HalfOpenOverlap ==
  (probe.done /\ probe.fn \in {"generateTwoSlots", "generateSlotsForSpecificDate",
                               "generateTwoSlotsFixedWindows"}) =>
     /\ \A i \in 1..Len(probe.out) : \A b \in probe.blocks :
          ~(probe.out[i].start < b.end /\ b.start < probe.out[i].end)
     /\ probe.fn = "generateSlotsForSpecificDate" =>
          \A w \in 1..Len(WindowStart) :
             LET c == Candidates(probe.forcedDate)[w]
             IN  (/\ c.end > probe.at
                  /\ \A b \in probe.blocks : b.end <= c.start \/ c.end <= b.start)
                   => \E i \in 1..Len(probe.out) : probe.out[i] = c

\* the first window of the date is returned alone: one busy block ends where
\* it starts and another one starts where it ends
C30_Witness ==
  /\ probe.done
  /\ probe.fn = "generateSlotsForSpecificDate"
  /\ Len(probe.out) = 1
  /\ \E b \in probe.blocks : b.end = probe.out[1].start
  /\ \E b \in probe.blocks : b.start = probe.out[1].end

\* the windows of a date that are still ahead and that no busy block overlaps
FreeWindows(date, at, blocks) ==
  {w \in 1..Len(WindowStart) :
     LET c == Candidates(date)[w]
     IN  /\ c.end > at
         /\ \A b \in blocks : ~(c.start < b.end /\ b.start < c.end)}

EarliestFree(date, at, blocks) ==
  Candidates(date)[CHOOSE w \in FreeWindows(date, at, blocks) :
                     \A v \in FreeWindows(date, at, blocks) : w <= v]

\* C29: with a forced date generateTwoSlots returns the empty list when the
\* date has no free window, both windows when it has two, and when it has
\* one: that window, followed by the earliest free window of the first of the
\* following 1 to 14 days that has one, if there is such a day.
C29_ForcedDate ==
  (probe.done /\ probe.fn = "generateTwoSlots" /\ probe.forcedDate # NoDay) =>
     LET fd == probe.forcedDate
         free == FreeWindows(fd, probe.at, probe.blocks)
         later == {d \in (fd + 1)..(fd + BackfillDays) :
                     FreeWindows(d, probe.at, probe.blocks) # {}}
         next == CHOOSE d \in later : \A e \in later : d <= e
     IN  /\ free = {} => probe.out = <<>>
         /\ Cardinality(free) = 2 => probe.out = Candidates(fd)
         /\ Cardinality(free) = 1 =>
              IF later = {}
              THEN probe.out = <<EarliestFree(fd, probe.at, probe.blocks)>>
              ELSE probe.out = <<EarliestFree(fd, probe.at, probe.blocks),
                                 EarliestFree(next, probe.at, probe.blocks)>>

\* the forced date has one free window, the day after it has none, and the
\* second slot is the second window of the day after that
C29_Witness ==
  /\ probe.done
  /\ probe.fn = "generateTwoSlots"
  /\ probe.forcedDate # NoDay
  /\ Len(probe.out) = 2
  /\ DateOf(probe.out[1].start) = probe.forcedDate
  /\ FreeWindows(probe.forcedDate + 1, probe.at, probe.blocks) = {}
  /\ DateOf(probe.out[2].start) = probe.forcedDate + 2

\* the forced date has no free window although later days have, and the
\* result is empty
C29_WitnessEmpty ==
  /\ probe.done
  /\ probe.fn = "generateTwoSlots"
  /\ probe.forcedDate >= ClockDate
  /\ probe.out = <<>>
  /\ FreeWindows(probe.forcedDate + 1, probe.at, probe.blocks) # {}

\* C28: when a request for other options in closing is answered with new
\* slots, none of them falls on a day of the slots that were on offer; the
\* days of the slots on offer are always among offeredDays; and
\* generateTwoSlotsFixedWindows returns no slot on a weekday of excludeDays.
C28_RegenerateNewDays ==
  /\ [][\A p \in Procs :
          (At(p, "machine") /\ turn'[p].branch = "regenerate"
             /\ turn'[p].reply = "sureReClose") =>
             getDaysFromSlots(turn'[p].ctx.slots) \cap getDaysFromSlots(turn[p].ctx.slots) = {}
       ]_vars
  /\ [](\A l \in Leads : getDaysFromSlots(convo[l].ctx.slots) \subseteq convo[l].ctx.offeredDays)
  /\ []((probe.done /\ probe.fn = "generateTwoSlotsFixedWindows") =>
          \A i \in 1..Len(probe.out) :
             weekdayOf(DateOf(probe.out[i].start)) \notin probe.excludeDays)

\* the generator's part of C28 alone
ExcludeDaysRespected ==
  (probe.done /\ probe.fn = "generateTwoSlotsFixedWindows") =>
     \A i \in 1..Len(probe.out) :
        weekdayOf(DateOf(probe.out[i].start)) \notin probe.excludeDays

\* a search that skips a weekday and returns two windows of other days
ExcludeDaysApplied ==
  /\ probe.done
  /\ probe.fn = "generateTwoSlotsFixedWindows"
  /\ weekdayOf(ClockDate + 1) \in probe.excludeDays
  /\ Len(probe.out) = 2
  /\ DateOf(probe.out[1].start) = ClockDate
  /\ DateOf(probe.out[2].start) > ClockDate + 1

\* C31: in every state of a conversation the stored offer holds at most two
\* slots, and no slot twice.
C31_AtMostTwoDistinct ==
  \A l \in Leads :
     LET slots == convo[l].ctx.slots
     IN  /\ Len(slots) <= 2
         /\ \A i, j \in 1..Len(slots) : i # j => slots[i] # slots[j]

\* an offer of two windows of different days is stored, after an earlier
\* offer on one day: the first window was taken in between
C31_Witness ==
  \E l \in Leads :
     /\ Len(convo[l].ctx.slots) = 2
     /\ SlotDay(convo[l].ctx.slots[1]) # SlotDay(convo[l].ctx.slots[2])
     /\ Cardinality(convo[l].ctx.offeredDays) >= 2

\* C32: every turn that reaches the persist/send point or the catch of the
\* event loop ends with exactly one reply sent: the computed reply, after the
\* conversation state was stored, or the fallback; no message gets two
\* replies; and the catch leaves the claim and booking columns of the lead row
\* as the failed turn left them.
C32_ReplyOrFallback ==
  /\ [][\A p \in Procs :
          (turn[p].pc \in {"persist", "error"} /\ turn'[p].pc = "idle") =>
             /\ replies'[turn[p].key] = replies[turn[p].key] + 1
             /\ turn[p].pc = "persist" =>
                  /\ convo'[turn[p].lead].step = turn[p].step
                  /\ convo'[turn[p].lead].ctx = turn[p].ctx
             /\ turn[p].pc = "error" =>
                  \/ leads'[turn[p].lead] = leads[turn[p].lead]
                  \/ leads'[turn[p].lead] = upsertLeadByPsid(leads[turn[p].lead])
       ]_vars
  /\ [](\A k \in Keys : replies[k] <= 1)

\* C33: when the sender selects an offered slot that stays free, then sends
\* the address and then the phone number, every collaborator call succeeds,
\* the claim stays within its TTL and no other turn of the lead interleaves,
\* the lead eventually has a finalized booking (status booked, bot disabled,
\* booked slot and event, no pending claim) and the conversation is at start
BookingFinalized(l) ==
  /\ leads[l].status = "booked"
  /\ ~leads[l].bot_enabled
  /\ leads[l].booked_slot # NoSlot
  /\ leads[l].pending_slot = NoSlot
  /\ convo[l].exists
  /\ convo[l].step = "start"

C33_BookingCompletes ==
  (\E p \in Procs : At(p, "claim")) ~> BookingFinalized(1)

C33_Witness ==
  /\ BookingFinalized(1)
  /\ nmsgs = Len(BookingScript)
  /\ replies[Len(BookingScript)] = 1
  /\ \E i \in 1..Len(calendar) : calendar[i].slot = leads[1].booked_slot
  /\ \A p \in Procs : Free(p)

\* C34: concurrent turns of one lead are serializable; no turn's write of the
\* conversation state is overwritten by a turn that read the state before
\* that write.  When a turn writes its copy with upsertConvoState, no other
\* turn of the lead is about to write a different copy that it built from a
\* read before this write
StaleCopy(p, q) ==
  /\ q # p
  /\ turn[q].lead = turn[p].lead
  /\ At(q, "persist")
  /\ <<turn[q].step, turn[q].ctx>> # <<turn[p].step, turn[p].ctx>>

C34_Serializable ==
  [][\A p \in Procs :
        (At(p, "persist") /\ convo'[turn[p].lead].step = turn[p].step
                          /\ convo'[turn[p].lead].ctx = turn[p].ctx
                          /\ turn'[p].pc # "persist") =>
           \A q \in Procs : ~StaleCopy(p, q)]_vars

\* C35: no orphan reservations: every reservation created by createEvent is,
\* from the end of its turn onward, referenced by the booked_event_id of the
\* lead it was created for
CreatingTurn(i) ==
  \E p \in Procs : ~Free(p) /\ turn[p].eventId = i

C35_NoOrphanReservation ==
  \A i \in 1..Len(calendar) :
     \/ CreatingTurn(i)
     \/ leads[calendar[i].lead].booked_event_id = i

\* C36: whenever a turn ends with the conversation step start or closing and
\* no collaborator call failed in it, the lead row holds no pending claim
C36_NoPendingOutsideCollect ==
  [][\A p \in Procs :
        (/\ ~Free(p)
         /\ turn'[p].pc = "idle"
         /\ turn[p].pc # "error"
         /\ turn[p].fail = "none"
         /\ convo'[turn[p].lead].step \in {"start", "closing"}) =>
           /\ leads'[turn[p].lead].pending_slot = NoSlot
           /\ leads'[turn[p].lead].pending_claimed_at = NoTime]_vars

\* C37: after a stop message has been acknowledged (the lead row is dead), no
\* automated reply is sent for a later inbound message until a reset: the
\* turn of the next message that is not a greeting ends without a reply
C37_SilentAfterStop ==
  [][\A p \in Procs :
        (/\ Ends(p)
         /\ turn[p].afterStop
         /\ turn[p].text \notin greetings) =>
           replies'[turn[p].key] = replies[turn[p].key]]_vars

\* C38: with zero or one stored offered slot, no message makes the closing
\* step raise an internal error: the step of the state machine never leaves
\* for the catch of the event loop
C38_ClosingNeverThrows ==
  [][\A p \in Procs :
        (/\ At(p, "machine")
         /\ turn[p].step = "closing"
         /\ Len(turn[p].ctx.slots) <= 1) =>
           turn'[p].pc # "error"]_vars

\* C39: when the reply to a date request presents two times as available on
\* the requested date (dateClose with two slots of different times), both
\* offered slots lie on the requested date
PresentsTwoTimes(p) ==
  /\ At(p, "persist")
  /\ turn[p].reply = "dateClose"
  /\ Len(turn[p].ctx.slots) >= 2
  /\ LabelTime(turn[p].ctx.slots[1]) # LabelTime(turn[p].ctx.slots[2])

C39_BothOnRequestedDate ==
  \A p \in Procs :
     PresentsTwoTimes(p) =>
        \A i \in 1..2 : SlotDay(turn[p].ctx.slots[i]) = turn[p].forcedDate

\* C40: in the closing step, a reply that is the exact label of a currently
\* offered slot that is still free results in that slot being claimed and
\* the step becoming post_book_collect in the same turn
C40_LabelClaimsSlot ==
  [][\A p \in Procs :
        LET l == turn[p].lead
            slots == convo[l].ctx.slots
        IN  (/\ Ends(p)
             /\ turn[p].text # NoText
             /\ convo[l].step = "closing") =>
               \A i \in 1..Len(slots) :
                  (/\ turn[p].text = formatSlotLabel(slots[i])
                   /\ isSlotStillFree(freeBusy(calendar), slots[i])) =>
                     /\ convo'[l].step = "post_book_collect"
                     /\ leads'[l].pending_slot = slots[i]]_vars

\* the turn of worker p ends with the reply that the state machine computed
Handled(p) == turn[p].pc = "persist" /\ turn'[p].pc = "idle"

\* C11: for a lead whose bot_enabled flag is false, processing an inbound
\* event sends no outbound message on any path, the error fallback included.
C11_DisabledIsSilent ==
  [][\A p \in Procs :
       (Ends(p) /\ replies'[turn[p].key] # replies[turn[p].key]) => turn[p].enabled
    ]_vars

C14_NonEmptyReply ==
  /\ [][\A p \in Procs :
          (Ends(p) /\ turn[p].text # NoText /\ turn[p].enabled) =>
             replies'[turn[p].key] = replies[turn[p].key] + 1
       ]_vars
  /\ [](\A p \in Procs : turn[p].pc = "persist" => turn[p].reply # "")

\* C15 as stated: whenever a turn begins in step closing with the attempt
\* count at 3 or more, the reply is the handoff message whatever the message
\* is, the status becomes needs_followup and the count is reset to 0.
C15_HandoffAlways ==
  [][\A p \in Procs :
       ( /\ Handled(p)
         /\ convo[turn[p].lead].step = "closing"
         /\ convo[turn[p].lead].ctx.attemptCount >= DegradeAt ) =>
          /\ turn[p].reply = "handoff"
          /\ leads'[turn[p].lead].status = "needs_followup"
          /\ convo'[turn[p].lead].ctx.attemptCount = 0
    ]_vars

\* C15 amended: whenever a turn for a text that is neither a reset greeting
\* nor an FAQ question begins in step closing with the attempt count at 3 or
\* more, the reply is the handoff message, the status becomes needs_followup
\* and the count is reset to 0.
C15_HandoffUnlessFaq ==
  [][\A p \in Procs :
       ( /\ Handled(p)
         /\ convo[turn[p].lead].step = "closing"
         /\ convo[turn[p].lead].ctx.attemptCount >= DegradeAt
         /\ turn[p].text # NoText
         /\ turn[p].text \notin greetings
         /\ ~IsFaq(turn[p].text) ) =>
          /\ turn[p].reply = "handoff"
          /\ leads'[turn[p].lead].status = "needs_followup"
          /\ convo'[turn[p].lead].ctx.attemptCount = 0
    ]_vars

C15_Witness ==
  \E p \in Procs :
    /\ turn[p].pc = "persist"
    /\ turn[p].branch = "handoff"
    /\ convo[turn[p].lead].step = "closing"
    /\ convo[turn[p].lead].ctx.attemptCount >= DegradeAt
    /\ leads[turn[p].lead].status = "needs_followup"

\* C16: contact details are collected in the order address, phone: a
\* reservation is created only by a turn that recorded the phone and found an
\* address recorded for the same claim, and the conversation waits for the
\* phone only with an address recorded.
C16_AddressThenPhone ==
  /\ [][\A p \in Procs :
          (turn[p].eventId = NoEvent /\ turn'[p].eventId # NoEvent) =>
             /\ turn[p].ctx.address
             /\ turn[p].ctx.phone
             /\ turn[p].ctx.addressFor = turn[p].pending
       ]_vars
  /\ [](\A l \in Leads :
          convo[l].ctx.collectStep = "phone" => convo[l].ctx.address)

\* C17: after a change request is processed in post_book_collect, the lead
\* holds no pending claim and the conversation is in step closing.
C17_ChangeReleasesClaim ==
  [][\A p \in Procs :
       ( /\ Handled(p)
         /\ turn[p].branch = "change" ) =>
          /\ leads'[turn[p].lead].pending_slot = NoSlot
          /\ leads'[turn[p].lead].pending_claimed_at = NoTime
          /\ convo'[turn[p].lead].step = "closing"
    ]_vars

====
